---- MODULE Spec2Model ----
(***************************************************************************)
(* Query safety gateway and analytics aggregation of the research graph    *)
(* package: the Cypher validators (research_graph_rag/utils/validators.py  *)
(* and the older research_query_agent.py), the query tools built on them,  *)
(* and the composite confidence score of the network-analysis agent.       *)
(*                                                                         *)
(* A query string is a sequence of one-character strings, so that the      *)
(* substring tests and regular expressions of the code are computed        *)
(* character by character.                                                 *)
(***************************************************************************)
EXTENDS Integers, Sequences, FiniteSets, TLC

VARIABLES
    candidate,   \* the candidate query string given to the operation
    op,          \* the operation that has run ("none" before any)
    result,      \* what the operation returned or raised
    prev,        \* the string a second normalisation pass started from
    executed,    \* the query strings handed to Neo4jClient.run_cypher, in order
    drivers,     \* the Neo4j drivers opened and closed so far, as counts
    record,      \* the metric record given to the confidence score
    confidence,  \* the composite confidence score, a fraction [num, den]
    analysis_type,  \* the analysis kind whose backend result is processed
    backend_result, \* the backend result given to the result processing
    projection,  \* the graph projection exists in the backing store
    graph_created,  \* the agent's flag _graph_created
    tool_calls,  \* the calls of the agent's neo4j_tool, with their outcomes
    request,     \* the arguments of the agent operation that has run
    input_lines, \* the lines the interactive session is given, in order
    lines_read,  \* how many of them input() has returned
    agent_calls, \* the calls of agent.query made by the session, in order
    session,     \* the interactive loop: "idle", "running", "at_eof", "returned"
    checks_run,  \* the checks validate_full has evaluated, in order
    callers      \* the concurrent calls of ensure_graph_projection under way

vars == <<candidate, op, result, prev, executed, drivers, record, confidence,
          analysis_type, backend_result, projection, graph_created, tool_calls,
          request, input_lines, lines_read, agent_calls, session, checks_run,
          callers>>

\* the state kept outside the validators: the database side, the scoring side
database == <<executed, drivers>>
scoring == <<record, confidence>>
ranking == <<analysis_type, backend_result>>
agent == <<projection, graph_created, tool_calls, request>>
interactive == <<input_lines, lines_read, agent_calls, session>>
analysis == <<ranking, agent, interactive, checks_run, callers>>

----------------------------------------------------------------------------
(* Characters and the string primitives of Python used by the code.        *)

UpperMap ==
    [a |-> "A", b |-> "B", c |-> "C", d |-> "D", e |-> "E", f |-> "F", 
     g |-> "G", h |-> "H", i |-> "I", j |-> "J", k |-> "K", l |-> "L", 
     m |-> "M", n |-> "N", o |-> "O", p |-> "P", q |-> "Q", r |-> "R", 
     s |-> "S", t |-> "T", u |-> "U", v |-> "V", w |-> "W", x |-> "X", 
     y |-> "Y", z |-> "Z"]

LowerMap ==
    [A |-> "a", B |-> "b", C |-> "c", D |-> "d", E |-> "e", F |-> "f", 
     G |-> "g", H |-> "h", I |-> "i", J |-> "j", K |-> "k", L |-> "l", 
     M |-> "m", N |-> "n", O |-> "o", P |-> "p", Q |-> "q", R |-> "r", 
     S |-> "s", T |-> "t", U |-> "u", V |-> "v", W |-> "w", X |-> "x", 
     Y |-> "y", Z |-> "z"]

LowerLetters == DOMAIN UpperMap
UpperLetters == DOMAIN LowerMap
Letters == LowerLetters \cup UpperLetters
Digits == {"0", "1", "2", "3", "4", "5", "6", "7", "8", "9"}
Whitespace == {" ", "\t", "\n"}

IsSpace(c) == c \in Whitespace
IsLetter(c) == c \in Letters
\* \w, [A-Za-z0-9_]
IsWordChar(c) == c \in Letters \/ c \in Digits \/ c = "_"
\* [a-zA-Z0-9_.]
IsProcChar(c) == IsWordChar(c) \/ c = "."

UpperChar(c) == IF c \in LowerLetters THEN UpperMap[c] ELSE c
LowerChar(c) == IF c \in UpperLetters THEN LowerMap[c] ELSE c

\* str.upper(), str.lower()
upper(s) == [i \in 1..Len(s) |-> UpperChar(s[i])]
lower(s) == [i \in 1..Len(s) |-> LowerChar(s[i])]

\* s[from:] (1-based from)
Drop(s, from) == SubSeq(s, from, Len(s))

\* sub in s
Contains(sub, s) ==
    \E i \in 0..(Len(s) - Len(sub)) : \A j \in 1..Len(sub) : s[i + j] = sub[j]

\* s.startswith(prefix)
StartsWith(prefix, s) ==
    /\ Len(prefix) <= Len(s)
    /\ \A j \in 1..Len(prefix) : s[j] = prefix[j]

\* s.count(c) for a one-character c
RECURSIVE count(_, _)
count(s, c) ==
    IF s = <<>> THEN 0
    ELSE (IF Head(s) = c THEN 1 ELSE 0) + count(Tail(s), c)

RECURSIVE lstrip(_)
lstrip(s) == IF s # <<>> /\ IsSpace(Head(s)) THEN lstrip(Tail(s)) ELSE s

RECURSIVE rstrip(_)
rstrip(s) ==
    IF s # <<>> /\ IsSpace(s[Len(s)]) THEN rstrip(SubSeq(s, 1, Len(s) - 1)) ELSE s

\* str.strip()
strip(s) == rstrip(lstrip(s))

\* the longest prefix of s made of word characters: a greedy [A-Za-z0-9_]*
RECURSIVE TakeWord(_)
TakeWord(s) ==
    IF s # <<>> /\ IsWordChar(Head(s)) THEN <<Head(s)>> \o TakeWord(Tail(s)) ELSE <<>>

\* the longest prefix of s made of procedure-name characters: [a-zA-Z0-9_.]+
RECURSIVE TakeProc(_)
TakeProc(s) ==
    IF s # <<>> /\ IsProcChar(Head(s)) THEN <<Head(s)>> \o TakeProc(Tail(s)) ELSE <<>>

\* the elements of a sequence
Range(s) == {s[i] : i \in 1..Len(s)}

\* the concatenation of a sequence of strings
RECURSIVE Concat(_)
Concat(fs) == IF fs = <<>> THEN <<>> ELSE Head(fs) \o Concat(Tail(fs))

\* every string made of at most n fragments of the vocabulary V
QueriesOver(V, n) == UNION {{Concat(f) : f \in [1..k -> V]} : k \in 0..n}

----------------------------------------------------------------------------
(* Outcomes: a returned value, or the ValidationError raised.              *)

Ok(value) == [status |-> "ok", type |-> "none", value |-> value]
Raise(type, value) == [status |-> "error", type |-> type, value |-> value]
\* a check that returned None
NoError == Ok(<<>>)
NoResult == [status |-> "none", type |-> "none", value |-> <<>>]

----------------------------------------------------------------------------
(* research_graph_rag/utils/validators.py: class CypherValidator           *)

FORBIDDEN_KEYWORDS ==
    { <<"C", "R", "E", "A", "T", "E">>,
      <<"M", "E", "R", "G", "E">>,
      <<"D", "E", "L", "E", "T", "E">>,
      <<"R", "E", "M", "O", "V", "E">>,
      <<"S", "E", "T">>,
      <<"D", "R", "O", "P">>,
      <<"D", "E", "T", "A", "C", "H", " ", "D", "E", "L", "E", "T", "E">>,
      <<"F", "O", "R", "E", "A", "C", "H">>,
      <<"L", "O", "A", "D", " ", "C", "S", "V">> }

ALLOWED_PROCEDURES ==
    { <<"g", "d", "s", ".">>,
      <<"d", "b", ".", "l", "a", "b", "e", "l", "s">>,
      <<"d", "b", ".", "r", "e", "l", "a", "t", "i", "o", "n", "s", "h", "i", "p", "T", "y", "p", "e", "s">>,
      <<"d", "b", ".", "p", "r", "o", "p", "e", "r", "t", "y", "K", "e", "y", "s">>,
      <<"d", "b", ".", "s", "c", "h", "e", "m", "a">>,
      <<"d", "b", "m", "s", ".", "c", "o", "m", "p", "o", "n", "e", "n", "t", "s">> }

VALID_LABELS ==
    { <<"A", "u", "t", "h", "o", "r">>,
      <<"W", "o", "r", "k">>,
      <<"T", "o", "p", "i", "c">> }

VALID_RELATIONSHIPS ==
    { <<"W", "O", "R", "K", "_", "A", "U", "T", "H", "O", "R", "E", "D", "_", "B", "Y">>,
      <<"W", "O", "R", "K", "_", "H", "A", "S", "_", "T", "O", "P", "I", "C">>,
      <<"R", "E", "L", "A", "T", "E", "D", "_", "T", "O">>,
      <<"C", "O", "L", "L", "A", "B", "O", "R", "A", "T", "E", "D", "_", "W", "I", "T", "H">>,
      <<"S", "H", "A", "R", "E", "S", "_", "T", "O", "P", "I", "C", "_", "W", "I", "T", "H">> }

\* re.findall(r'CALL\s+([a-zA-Z0-9_.]+)', cypher, re.IGNORECASE): the names
\* captured, left to right, matches not overlapping
RECURSIVE FindCalls(_)
FindCalls(s) ==
    IF Len(s) < 6 THEN <<>>
    ELSE IF upper(SubSeq(s, 1, 4)) = <<"C", "A", "L", "L">> /\ IsSpace(s[5])
         THEN LET rest == lstrip(Drop(s, 5))
                  name == TakeProc(rest)
              IN  IF name # <<>>
                  THEN <<name>> \o FindCalls(Drop(rest, Len(name) + 1))
                  ELSE FindCalls(Tail(s))
         ELSE FindCalls(Tail(s))

\* the first call whose lower-cased name starts with no allowed prefix,
\* <<>> when there is none
RECURSIVE FirstDisallowed(_)
FirstDisallowed(calls) ==
    IF calls = <<>> THEN <<>>
    ELSE IF \E prefix \in ALLOWED_PROCEDURES : StartsWith(prefix, lower(Head(calls)))
         THEN FirstDisallowed(Tail(calls))
         ELSE Head(calls)

validate_procedure_calls(cypher) ==
    LET call == FirstDisallowed(FindCalls(cypher))
    IN  IF call # <<>> THEN Raise("procedure_validation", call) ELSE NoError

\* assert_read_only without the upper-casing: keywords match in upper case only
assert_read_only_case_sensitive(cypher) ==
    IF \E keyword \in FORBIDDEN_KEYWORDS : Contains(keyword, cypher)
    THEN Raise("read_only_check", <<>>)
    ELSE IF Contains(<<"C", "A", "L", "L", " ">>, cypher)
         THEN validate_procedure_calls(cypher)
         ELSE NoError

\* The keyword named in the error is the first match in the iteration
\* order of a Python set of strings, which differs between runs; the
\* outcome keeps the kind of the rejection only.
assert_read_only(cypher) ==
    LET cypher_upper == upper(cypher)
    IN  IF \E keyword \in FORBIDDEN_KEYWORDS : Contains(keyword, cypher_upper)
        THEN Raise("read_only_check", <<>>)
        ELSE IF Contains(<<"C", "A", "L", "L", " ">>, cypher_upper)
             THEN validate_procedure_calls(cypher)
             ELSE NoError

\* re.findall(r':([A-Za-z][A-Za-z0-9_]*)', cypher)
RECURSIVE FindLabels(_)
FindLabels(s) ==
    IF Len(s) < 2 THEN <<>>
    ELSE IF s[1] = ":" /\ IsLetter(s[2])
         THEN LET name == TakeWord(Tail(s))
              IN  <<name>> \o FindLabels(Drop(s, Len(name) + 2))
         ELSE FindLabels(Tail(s))

\* the first element of a sequence of names that is not in the set valid,
\* <<>> when all are
RECURSIVE FirstNotIn(_, _)
FirstNotIn(names, valid) ==
    IF names = <<>> THEN <<>>
    ELSE IF Head(names) \in valid THEN FirstNotIn(Tail(names), valid)
         ELSE Head(names)

validate_labels(cypher) ==
    LET label == FirstNotIn(FindLabels(cypher), VALID_LABELS)
    IN  IF label # <<>> THEN Raise("label_validation", label) ELSE NoError

\* re.findall(r'\[:([A-Za-z_][A-Za-z0-9_]*)\]', cypher)
RECURSIVE FindRelationships(_)
FindRelationships(s) ==
    IF Len(s) < 4 THEN <<>>
    ELSE IF s[1] = "[" /\ s[2] = ":" /\ (IsLetter(s[3]) \/ s[3] = "_")
         THEN LET name == TakeWord(Drop(s, 3))
              IN  IF Len(s) >= Len(name) + 3 /\ s[Len(name) + 3] = "]"
                  THEN <<name>> \o FindRelationships(Drop(s, Len(name) + 4))
                  ELSE FindRelationships(Tail(s))
         ELSE FindRelationships(Tail(s))

validate_relationships(cypher) ==
    LET rel == FirstNotIn(FindRelationships(cypher), VALID_RELATIONSHIPS)
    IN  IF rel # <<>> THEN Raise("relationship_validation", rel) ELSE NoError

IsQuote(c) == c = "\"" \/ c = "'"

\* a quote at i and a quote at l > i on the same line ('.' matches no newline)
QuotePair(s, i, l) ==
    /\ i < l /\ IsQuote(s[i]) /\ IsQuote(s[l])
    /\ \A k \in i..l : s[k] # "\n"

\* re.search of the three suspicious patterns:
\*   ["\'].*["\'].*\+.*["\']     ["\'].*\$.*["\']     ["\'].*\{.*\}.*["\']
validate_properties(cypher) ==
    LET n == Len(cypher)
        concat == \E i \in 1..n : \E l \in (i + 1)..n :
                     /\ QuotePair(cypher, i, l)
                     /\ \E j \in (i + 1)..(l - 1) :
                           /\ IsQuote(cypher[j])
                           /\ \E k \in (j + 1)..(l - 1) : cypher[k] = "+"
        param == \E i \in 1..n : \E l \in (i + 1)..n :
                     /\ QuotePair(cypher, i, l)
                     /\ \E k \in (i + 1)..(l - 1) : cypher[k] = "$"
        template == \E i \in 1..n : \E l \in (i + 1)..n :
                     /\ QuotePair(cypher, i, l)
                     /\ \E j \in (i + 1)..(l - 1) :
                           /\ cypher[j] = "{"
                           /\ \E k \in (j + 1)..(l - 1) : cypher[k] = "}"
    IN  IF concat \/ param \/ template
        THEN Raise("property_validation", <<>>)
        ELSE NoError

\* the rest of s from the end of its first line on: what '.*$' leaves
RECURSIVE SkipToEol(_)
SkipToEol(s) == IF s = <<>> \/ Head(s) = "\n" THEN s ELSE SkipToEol(Tail(s))

\* re.sub(r'//.*$', '', cleaned, flags=re.MULTILINE)
RECURSIVE RemoveLineComments(_)
RemoveLineComments(s) ==
    IF s = <<>> THEN <<>>
    ELSE IF Len(s) >= 2 /\ s[1] = "/" /\ s[2] = "/"
         THEN RemoveLineComments(SkipToEol(s))
         ELSE <<Head(s)>> \o RemoveLineComments(Tail(s))

\* the index of the first "*/" of s at or after index i, 0 when there is none
RECURSIVE FindClose(_, _)
FindClose(s, i) ==
    IF i + 1 > Len(s) THEN 0
    ELSE IF s[i] = "*" /\ s[i + 1] = "/" THEN i
         ELSE FindClose(s, i + 1)

\* re.sub(r'/\*.*?\*/', '', cleaned, flags=re.DOTALL)
RECURSIVE RemoveBlockComments(_)
RemoveBlockComments(s) ==
    IF s = <<>> THEN <<>>
    ELSE IF Len(s) >= 2 /\ s[1] = "/" /\ s[2] = "*" /\ FindClose(s, 3) # 0
         THEN RemoveBlockComments(Drop(s, FindClose(s, 3) + 2))
         ELSE <<Head(s)>> \o RemoveBlockComments(Tail(s))

\* re.sub(r'\s+', ' ', cleaned)
RECURSIVE CollapseWhitespace(_)
CollapseWhitespace(s) ==
    IF s = <<>> THEN <<>>
    ELSE IF IsSpace(Head(s)) THEN <<" ">> \o CollapseWhitespace(lstrip(s))
         ELSE <<Head(s)>> \o CollapseWhitespace(Tail(s))

\* the cleaning steps of prepare_cypher, before its read-only check
Clean(cypher) ==
    CollapseWhitespace(RemoveBlockComments(RemoveLineComments(strip(cypher))))

prepare_cypher(cypher) ==
    IF cypher = <<>> \/ strip(cypher) = <<>>
    THEN Raise("empty", <<>>)
    ELSE LET cleaned == Clean(cypher)
             err == assert_read_only(cleaned)
         IN  IF err.status = "error" THEN err ELSE Ok(cleaned)

validate_query_structure(cypher) ==
    LET cypher_upper == upper(cypher)
    IN  IF count(cypher, "(") # count(cypher, ")")
        THEN Raise("structure_validation", <<"p", "a", "r", "e", "n", "t", "h", "e", "s", "e", "s">>)
        ELSE IF count(cypher, "[") # count(cypher, "]")
        THEN Raise("structure_validation", <<"b", "r", "a", "c", "k", "e", "t", "s">>)
        ELSE IF count(cypher, "{") # count(cypher, "}")
        THEN Raise("structure_validation", <<"b", "r", "a", "c", "e", "s">>)
        ELSE IF /\ ~ Contains(<<"R", "E", "T", "U", "R", "N">>, cypher_upper)
                /\ ~ Contains(<<"Y", "I", "E", "L", "D">>, cypher_upper)
                /\ ~ Contains(<<"C", "A", "L", "L">>, cypher_upper)
        THEN Raise("structure_validation", <<"c", "l", "a", "u", "s", "e">>)
        ELSE NoError

\* the first error of a sequence of check outcomes, NoError when none raised
RECURSIVE FirstError(_)
FirstError(checks) ==
    IF checks = <<>> THEN NoError
    ELSE IF Head(checks).status = "error" THEN Head(checks)
         ELSE FirstError(Tail(checks))

validate_full(cypher) ==
    LET p == prepare_cypher(cypher)
    IN  IF p.status = "error" THEN p
        ELSE LET prepared == p.value
                 err == FirstError(
                     << validate_query_structure(prepared),
                        validate_properties(prepared) >>
                     \o (IF ~ Contains(<<"C", "A", "L", "L", " ", "g", "d", "s", ".">>, upper(prepared))
                         THEN << validate_labels(prepared),
                                 validate_relationships(prepared) >>
                         ELSE <<>>))
             IN  IF err.status = "error" THEN err ELSE Ok(prepared)

----------------------------------------------------------------------------
(* The state before any operation has run.                                 *)

NoRecord == [none |-> TRUE]
NoScore == [num |-> 0, den |-> 1]

\* no request made of the agent
NoRequest == [none |-> TRUE]

\* no interactive session
ChainIdle == checks_run = <<>>

NoCallers == callers = <<>>

SessionIdle ==
    /\ input_lines = <<>>
    /\ lines_read = 0
    /\ agent_calls = <<>>
    /\ session = "idle"

\* no backend result to process
RankingIdle ==
    /\ analysis_type = "none"
    /\ backend_result = [error |-> FALSE, records |-> <<>>]

\* an agent as constructed, that has called nothing
AgentIdle ==
    /\ projection = FALSE
    /\ graph_created = FALSE
    /\ tool_calls = <<>>
    /\ request = NoRequest

\* no analysis has been asked for
AnalysisIdle ==
    /\ RankingIdle
    /\ AgentIdle
    /\ SessionIdle
    /\ ChainIdle
    /\ NoCallers

Idle ==
    /\ AnalysisIdle
    /\ op = "none"
    /\ result = NoResult
    /\ prev = <<>>
    /\ executed = <<>>
    /\ drivers = [opened |-> 0, closed |-> 0]
    /\ record = NoRecord
    /\ confidence = NoScore

----------------------------------------------------------------------------
(* CypherValidator.prepare_cypher applied to a raw query, and applied a    *)
(* second time to the query it returned.                                   *)

MaxPrepareFrags == 4

PrepareVocab ==
    { <<"S", "e", "T">>, <<"l", "o", "a", "d">>, <<"C", "S", "V">>, <<"n">>, <<" ">>, <<"\n">>,
      <<"/", "/">>, <<"/", "*">>, <<"*", "/">> }

InitPrepare ==
    /\ candidate \in QueriesOver(PrepareVocab, MaxPrepareFrags)
    /\ Idle

PrepareCypher ==
    /\ op = "none"
    /\ op' = "prepare_cypher"
    /\ result' = prepare_cypher(candidate)
    /\ UNCHANGED <<candidate, prev, database, scoring, analysis>>

PrepareAgain ==
    /\ op = "prepare_cypher"
    /\ result.status = "ok"
    /\ op' = "prepare_again"
    /\ prev' = result.value
    /\ result' = prepare_cypher(result.value)
    /\ UNCHANGED <<candidate, database, scoring, analysis>>

NextPrepare == PrepareCypher \/ PrepareAgain

SpecPrepare == InitPrepare /\ [][NextPrepare]_vars

\* s holds a forbidden write keyword, in any letter case
ContainsKeyword(s) ==
    \E keyword \in FORBIDDEN_KEYWORDS : Contains(keyword, upper(s))

\* s with its line and block comments removed
WithoutComments(s) == RemoveBlockComments(RemoveLineComments(strip(s)))

\* C1 as stated: every raw query that holds a forbidden write keyword, in
\* any letter case and at any position, is rejected by prepare_cypher with
\* the write-operation error and no prepared query is returned.
C1_KeywordAnywhereRejected ==
    (op = "prepare_cypher" /\ ContainsKeyword(candidate))
        => (result.status = "error" /\ result.type = "read_only_check")

\* C1 amended: every raw query in which a forbidden write keyword, in any
\* letter case, is left once the line and block comments are removed is
\* rejected by prepare_cypher with the write-operation error.
C1_KeywordOutsideCommentsRejected ==
    (op = "prepare_cypher" /\ ContainsKeyword(WithoutComments(candidate)))
        => (result.status = "error" /\ result.type = "read_only_check")

\* C1 witness: a query with a comment and, outside it, a keyword that is
\* not written in upper case, has been rejected as a write operation.
C1_Witness ==
    /\ op = "prepare_cypher"
    /\ Contains(<<"/", "/">>, candidate)
    /\ ContainsKeyword(WithoutComments(candidate))
    /\ \A keyword \in FORBIDDEN_KEYWORDS : ~ Contains(keyword, candidate)
    /\ result = Raise("read_only_check", <<>>)

\* C8 as stated: normalising a query that prepare_cypher accepted a second
\* time returns exactly the string the first pass returned.
C8_PrepareIdempotent ==
    op = "prepare_again" => result = Ok(prev)

----------------------------------------------------------------------------
(* CypherValidator.assert_read_only applied to a raw query.                *)

MaxReadOnlyFrags == 4

ReadOnlyVocab ==
    { <<"C", "A", "L", "L">>, <<"c", "A", "l", "L">>, <<" ">>, <<"\t">>, <<"a", "p", "o", "c", ".", "h", "e", "l", "p">>, <<"g", "d", "s", ".", "p", "r">>,
      <<"d", "b", ".", "l", "a", "b", "e", "l", "s">>, <<"d", "b", ".", "r", "e", "l", "a", "t", "i", "o", "n", "s", "h", "i", "p", "T", "y", "p", "e", "s">>, <<"d", "b", "m", "s", ".", "s", "e", "t", "X">>, <<"(", ")">> }

InitReadOnly ==
    /\ candidate \in QueriesOver(ReadOnlyVocab, MaxReadOnlyFrags)
    /\ Idle

AssertReadOnly ==
    /\ op = "none"
    /\ op' = "assert_read_only"
    /\ result' = assert_read_only(candidate)
    /\ UNCHANGED <<candidate, prev, database, scoring, analysis>>

NextReadOnly == AssertReadOnly

SpecReadOnly == InitReadOnly /\ [][NextReadOnly]_vars

\* the procedure names that follow a CALL and whitespace in s and start
\* with none of the allowed prefixes, letter case aside
DisallowedCalls(s) ==
    { name \in Range(FindCalls(s)) :
        \A prefix \in ALLOWED_PROCEDURES : ~ StartsWith(lower(prefix), lower(name)) }

\* C5 as stated: a query in which CALL, in any letter case, is followed by
\* whitespace and a procedure name outside the allow-list is rejected by
\* assert_read_only with 'Procedure call not allowed' naming that procedure.
\* Queries that also hold a forbidden write keyword are left aside: they are
\* rejected earlier, as write operations.
C5_DisallowedCallRejected ==
    (/\ op = "assert_read_only"
     /\ ~ ContainsKeyword(candidate)
     /\ DisallowedCalls(candidate) # {})
        => (/\ result.status = "error"
            /\ result.type = "procedure_validation"
            /\ result.value \in DisallowedCalls(candidate))

----------------------------------------------------------------------------
(* CypherValidator.validate_query_structure applied to a raw query.        *)

MaxStructureFrags == 3

StructureVocab ==
    { <<"(">>, <<")">>, <<"[">>, <<"]">>, <<"{">>, <<"}">>, <<"n">>, <<" ">>,
      <<"R", "E", "T", "U", "R", "N">>, <<"y", "i", "e", "l", "d">>, <<"C", "A", "L", "L", " ">>, <<"M", "c", "C", "a", "l", "l", "u", "m">> }

InitStructure ==
    /\ candidate \in QueriesOver(StructureVocab, MaxStructureFrags)
    /\ Idle

ValidateQueryStructure ==
    /\ op = "none"
    /\ op' = "validate_query_structure"
    /\ result' = validate_query_structure(candidate)
    /\ UNCHANGED <<candidate, prev, database, scoring, analysis>>

NextStructure == ValidateQueryStructure

SpecStructure == InitStructure /\ [][NextStructure]_vars

\* the counts of opening and closing parentheses, brackets and braces agree
Balanced(s) ==
    /\ count(s, "(") = count(s, ")")
    /\ count(s, "[") = count(s, "]")
    /\ count(s, "{") = count(s, "}")

\* s holds RETURN or YIELD, in any letter case
HasResultClause(s) ==
    Contains(<<"R", "E", "T", "U", "R", "N">>, upper(s)) \/ Contains(<<"Y", "I", "E", "L", "D">>, upper(s))

\* s is a procedure call: it starts, after leading whitespace, with CALL
IsBareCall(s) == StartsWith(<<"C", "A", "L", "L">>, upper(lstrip(s)))

\* C9 as stated: validate_query_structure accepts a query exactly when its
\* parentheses, brackets and braces are balanced in count and it holds a
\* RETURN or YIELD clause or is a bare procedure call; every other query is
\* rejected with a structure error.
C9_StructureAccepts ==
    op = "validate_query_structure" =>
        IF Balanced(candidate) /\ (HasResultClause(candidate) \/ IsBareCall(candidate))
        THEN result = NoError
        ELSE result.status = "error" /\ result.type = "structure_validation"

----------------------------------------------------------------------------
(* CypherValidator.validate_labels and validate_full applied to a query.   *)

MaxFullFrags == 4

FullVocab ==
    { <<"M", "A", "T", "C", "H", " ">>, <<"(", "a", ":", "A", "u", "t", "h", "o", "r", ")">>, <<"(", "w", ":", "W", "o", "r", "k", ")">>, <<"(", "x", ":", "F", "o", "o", ")">>,
      <<"-", "[", ":", "W", "O", "R", "K", "_", "A", "U", "T", "H", "O", "R", "E", "D", "_", "B", "Y", "]", "-", ">">>, <<"-", "[", ":", "W", "R", "O", "T", "E", "]", "-", ">">>,
      <<" ", "R", "E", "T", "U", "R", "N", " ", "a", ".", "n", "a", "m", "e">>, <<"C", "A", "L", "L", " ", "g", "d", "s", ".", "s", "(", ")", " ", "Y", "I", "E", "L", "D", " ", "n", " ">> }

InitFull ==
    /\ candidate \in QueriesOver(FullVocab, MaxFullFrags)
    /\ Idle

ValidateLabels ==
    /\ op = "none"
    /\ op' = "validate_labels"
    /\ result' = validate_labels(candidate)
    /\ UNCHANGED <<candidate, prev, database, scoring, analysis>>

ValidateRelationships ==
    /\ op = "none"
    /\ op' = "validate_relationships"
    /\ result' = validate_relationships(candidate)
    /\ UNCHANGED <<candidate, prev, database, scoring, analysis>>

ValidateFull ==
    /\ op = "none"
    /\ op' = "validate_full"
    /\ result' = validate_full(candidate)
    /\ UNCHANGED <<candidate, prev, database, scoring, analysis>>

NextFull == ValidateLabels \/ ValidateRelationships \/ ValidateFull

SpecFull == InitFull /\ [][NextFull]_vars

\* the names written as node labels in s: each ':Name' that does not open a
\* relationship pattern '[:'
RECURSIVE NodeLabels(_, _)
NodeLabels(s, before) ==
    IF Len(s) < 2 THEN {}
    ELSE IF s[1] = ":" /\ IsLetter(s[2]) /\ before # "["
         THEN {TakeWord(Tail(s))} \cup NodeLabels(Tail(s), s[1])
         ELSE NodeLabels(Tail(s), s[1])

\* s uses canonical node labels and relationship types only, and holds no
\* forbidden keyword and no procedure call
Canonical(s) ==
    /\ NodeLabels(s, " ") \subseteq VALID_LABELS
    /\ Range(FindRelationships(s)) \subseteq VALID_RELATIONSHIPS
    /\ ~ ContainsKeyword(s)
    /\ ~ Contains(<<"C", "A", "L", "L">>, upper(s))

\* C4 as stated: a query that uses only canonical labels, relationship types
\* and properties, with no forbidden keyword and no procedure call, passes
\* validate_labels, and validate_full returns it prepared (for validate_full,
\* of the queries that are well formed: balanced, with a RETURN clause).
C4_CanonicalAccepted ==
    /\ (op = "validate_labels" /\ Canonical(candidate))
          => result = NoError
    /\ (/\ op = "validate_full"
        /\ Canonical(candidate)
        /\ strip(candidate) # <<>>
        /\ validate_query_structure(candidate) = NoError)
          => result = Ok(Clean(candidate))

----------------------------------------------------------------------------
(* research_graph_rag/core/database.py: one Neo4jClient used as a context  *)
(* manager for one query. The backend decides how far the call gets.       *)

\* driver_fails: GraphDatabase.driver raises; test_fails: the driver is
\* made and the connection test raises; query_fails: run_cypher raises
BackendOutcomes == {"driver_fails", "test_fails", "query_fails", "ok"}

\* a driver object was created by Neo4jClient.__init__
DriverOpened(outcome) == outcome # "driver_fails"

\* __init__ returned, so the with block is entered and run_cypher is called
ClientEntered(outcome) == outcome \in {"query_fails", "ok"}

\* the queries run once the with block has run safe_cypher
RunCypher(outcome, safe_cypher) ==
    IF ClientEntered(outcome) THEN Append(executed, safe_cypher) ELSE executed

\* the drivers after 'with Neo4jClient(...) as client': __exit__ closes the
\* driver only when __init__ returned
WithClient(outcome) ==
    [opened |-> drivers.opened + (IF DriverOpened(outcome) THEN 1 ELSE 0),
     closed |-> drivers.closed + (IF ClientEntered(outcome) THEN 1 ELSE 0)]

----------------------------------------------------------------------------
(* research_graph_rag/agents/base_agent.py: neo4j_query_tool               *)

\* the try block of the tool: prepare_cypher, then validate_properties
ToolValidation(cypher) ==
    LET p == prepare_cypher(cypher)
    IN  IF p.status = "error" THEN p
        ELSE IF validate_properties(p.value).status = "error"
             THEN validate_properties(p.value)
             ELSE p

MaxToolFrags == 3

ToolVocab ==
    { <<"M", "A", "T", "C", "H", " ">>, <<"(", "a", ":", "A", "u", "t", "h", "o", "r", ")">>, <<"(", "x", ":", "F", "o", "o", ")">>, <<"-", "[", ":", "R", "E", "L", "A", "T", "E", "D", "_", "T", "O", "]", "-", ">">>,
      <<"-", "[", ":", "W", "R", "O", "T", "E", "]", "-", ">">>, <<" ", "R", "E", "T", "U", "R", "N", " ", "a">>, <<"C", "A", "L", "L", " ", "g", "d", "s", ".", "s", "(", ")", " ">>, <<"S", "E", "T", " ">>,
      <<"'", "$", "x", "'">> }

InitTool ==
    /\ candidate \in QueriesOver(ToolVocab, MaxToolFrags)
    /\ Idle

\* a tool that opens the database client before it validates the query
Neo4jQueryToolConnectingFirst ==
    /\ op = "none"
    /\ op' = "neo4j_query_tool"
    /\ \E outcome \in BackendOutcomes :
         LET v == ToolValidation(candidate)
         IN  IF v.status = "error"
             THEN /\ result' = Raise("cypher_validation_error", candidate)
                  /\ drivers' = WithClient(outcome)
                  /\ UNCHANGED executed
             ELSE /\ result' = IF outcome = "ok" THEN Ok(<<>>)
                               ELSE Raise("query_execution_error", v.value)
                  /\ executed' = RunCypher(outcome, v.value)
                  /\ drivers' = WithClient(outcome)
    /\ UNCHANGED <<candidate, prev, scoring, analysis>>

Neo4jQueryTool ==
    /\ op = "none"
    /\ op' = "neo4j_query_tool"
    /\ \E outcome \in BackendOutcomes :
         LET v == ToolValidation(candidate)
         IN  IF v.status = "error"
             THEN /\ result' = Raise("cypher_validation_error", candidate)
                  /\ UNCHANGED database
             ELSE /\ result' = IF outcome = "ok" THEN Ok(<<>>)
                               ELSE Raise("query_execution_error", v.value)
                  /\ executed' = RunCypher(outcome, v.value)
                  /\ drivers' = WithClient(outcome)
    /\ UNCHANGED <<candidate, prev, scoring, analysis>>

NextTool == Neo4jQueryTool

SpecTool == InitTool /\ [][NextTool]_vars

\* q is an analytics-procedure query: it calls a gds procedure
IsAnalyticsCall(q) == Contains(<<"C", "A", "L", "L", " ", "G", "D", "S", ".">>, upper(q))

\* C3 as stated: every query the base neo4j_query_tool hands to the
\* executor, other than an analytics-procedure query, mentions only the node
\* labels Author, Work, Topic and only valid relationship types.
C3_ExecutedSchemaOnly ==
    \A i \in 1..Len(executed) :
        ~ IsAnalyticsCall(executed[i]) =>
            /\ NodeLabels(executed[i], " ") \subseteq VALID_LABELS
            /\ Range(FindRelationships(executed[i])) \subseteq VALID_RELATIONSHIPS

----------------------------------------------------------------------------
(* research_graph_rag/agents/network_agent.py: network_analysis_neo4j_tool *)

prepare_gds_query(cypher) ==
    IF Contains(<<"C", "A", "L", "L", " ", "g", "d", "s", ".">>, cypher)
    THEN Ok(cypher)
    ELSE IF assert_read_only(cypher).status = "error"
         THEN assert_read_only(cypher)
         ELSE Ok(cypher)

NetworkVocab ==
    { <<"M", "A", "T", "C", "H", " ", "(", "n", ")", " ">>, <<"R", "E", "T", "U", "R", "N", " ", "n">>, <<"C", "A", "L", "L", " ", "g", "d", "s", ".", "s", "(", ")", " ">>, <<"c", "a", "l", "l", " ", "g", "d", "s", ".", "s", "(", ")", " ">>,
      <<"C", "A", "L", "L", " ", "a", "p", "o", "c", ".", "x", "(", ")", " ">>, <<"C", "R", "E", "A", "T", "E", " ", "(", "n", ")", " ">>, <<"S", "e", "T", " ">>, <<"C", "A", "L", "L", " ", "d", "b", ".", "l", "a", "b", "e", "l", "s", "(", ")", " ">> }

InitNetwork ==
    /\ candidate \in QueriesOver(NetworkVocab, MaxToolFrags)
    /\ Idle

NetworkAnalysisNeo4jTool ==
    /\ op = "none"
    /\ op' = "network_analysis_neo4j_tool"
    /\ \E outcome \in BackendOutcomes :
         LET v == prepare_gds_query(candidate)
         IN  IF v.status = "error"
             THEN /\ result' = Raise("gds_query_validation_error", candidate)
                  /\ UNCHANGED database
             ELSE /\ result' = IF outcome = "ok" THEN Ok(<<>>)
                               ELSE Raise("query_execution_error", v.value)
                  /\ executed' = RunCypher(outcome, v.value)
                  /\ drivers' = WithClient(outcome)
    /\ UNCHANGED <<candidate, prev, scoring, analysis>>

NextNetwork == NetworkAnalysisNeo4jTool

SpecNetwork == InitNetwork /\ [][NextNetwork]_vars

\* C2 as stated: every query string the network-analysis query tool hands
\* to the executor holds no forbidden write keyword and no CALL of a
\* procedure outside the allow-list.
C2_ExecutedReadOnly ==
    \A i \in 1..Len(executed) :
        /\ ~ ContainsKeyword(executed[i])
        /\ DisallowedCalls(executed[i]) = {}

----------------------------------------------------------------------------
(* research_query_agent.py: the older CypherValidator (names prefixed      *)
(* rqa_ where the package's validator has the same name) and its           *)
(* neo4j_query_tool.                                                       *)

rqa_FORBIDDEN_KEYWORDS ==
    { <<"C", "R", "E", "A", "T", "E">>,
      <<"M", "E", "R", "G", "E">>,
      <<"D", "E", "L", "E", "T", "E">>,
      <<"S", "E", "T">>,
      <<"D", "R", "O", "P">>,
      <<"R", "E", "M", "O", "V", "E">>,
      <<"C", "A", "L", "L">>,
      <<"L", "O", "A", "D", " ", "C", "S", "V">>,
      <<"A", "P", "O", "C">> }

SCHEMA ==
    [ Author |-> { <<"i", "d">>, <<"n", "a", "m", "e">>, <<"d", "i", "s", "p", "l", "a", "y", "_", "n", "a", "m", "e">> },
      Work   |-> { <<"i", "d">>, <<"t", "i", "t", "l", "e">>, <<"t", "y", "p", "e">>,
                   <<"p", "u", "b", "l", "i", "c", "a", "t", "i", "o", "n", "_", "d", "a", "t", "e">> },
      Topic  |-> { <<"i", "d">>, <<"d", "i", "s", "p", "l", "a", "y", "_", "n", "a", "m", "e">>, <<"s", "c", "o", "r", "e">> } ]

\* the aliases in the order the dictionaries list them, which is the order
\* the substitutions are made in
PROPERTY_ALIASES ==
    << [bad |-> <<"p", "u", "b", "l", "i", "c", "a", "t", "i", "o", "n", "_", "y", "e", "a", "r">>,
        good |-> <<"p", "u", "b", "l", "i", "c", "a", "t", "i", "o", "n", "_", "d", "a", "t", "e">>],
       [bad |-> <<"p", "u", "b", "_", "y", "e", "a", "r">>,
        good |-> <<"p", "u", "b", "l", "i", "c", "a", "t", "i", "o", "n", "_", "d", "a", "t", "e">>],
       [bad |-> <<"y", "e", "a", "r">>,
        good |-> <<"p", "u", "b", "l", "i", "c", "a", "t", "i", "o", "n", "_", "d", "a", "t", "e">>] >>

RELATIONSHIP_CANONICAL ==
    << [bad |-> <<"W", "R", "O", "T", "E">>,
        good |-> <<"W", "O", "R", "K", "_", "A", "U", "T", "H", "O", "R", "E", "D", "_", "B", "Y">>],
       [bad |-> <<"A", "U", "T", "H", "O", "R", "E", "D">>,
        good |-> <<"W", "O", "R", "K", "_", "A", "U", "T", "H", "O", "R", "E", "D", "_", "B", "Y">>],
       [bad |-> <<"A", "U", "T", "H", "O", "R", "E", "D", "_", "B", "Y">>,
        good |-> <<"W", "O", "R", "K", "_", "A", "U", "T", "H", "O", "R", "E", "D", "_", "B", "Y">>],
       [bad |-> <<"H", "A", "S", "_", "T", "O", "P", "I", "C">>,
        good |-> <<"W", "O", "R", "K", "_", "H", "A", "S", "_", "T", "O", "P", "I", "C">>],
       [bad |-> <<"T", "O", "P", "I", "C", "_", "I", "N">>,
        good |-> <<"W", "O", "R", "K", "_", "H", "A", "S", "_", "T", "O", "P", "I", "C">>] >>

rqa_VALID_LABELS == VALID_LABELS

rqa_assert_read_only(cypher) ==
    IF \E kw \in rqa_FORBIDDEN_KEYWORDS : Contains(kw, upper(cypher))
    THEN Raise("forbidden_keyword", <<>>)
    ELSE NoError

\* re.findall(r"(\w+)\.(\w+)", cypher): the second group of each match
RECURSIVE FindProperties(_)
FindProperties(s) ==
    IF s = <<>> THEN <<>>
    ELSE IF IsWordChar(Head(s))
         THEN LET var == TakeWord(s)
                  rest == Drop(s, Len(var) + 1)
              IN  IF Len(rest) >= 2 /\ rest[1] = "." /\ IsWordChar(rest[2])
                  THEN LET prop == TakeWord(Tail(rest))
                       IN  <<prop>> \o FindProperties(Drop(rest, Len(prop) + 2))
                  ELSE FindProperties(rest)
         ELSE FindProperties(Tail(s))

rqa_validate_properties(cypher) ==
    LET prop == FirstNotIn(FindProperties(cypher),
                           UNION {SCHEMA[label] : label \in DOMAIN SCHEMA})
    IN  IF prop # <<>> THEN Raise("unknown_property", prop) ELSE NoError

\* re.sub(rf"\.{bad}\b", f".{good}", cypher)
RECURSIVE SubProperty(_, _, _)
SubProperty(s, bad, good) ==
    IF Len(s) < Len(bad) + 1 THEN s
    ELSE IF /\ s[1] = "."
            /\ StartsWith(bad, Tail(s))
            /\ (Len(s) = Len(bad) + 1 \/ ~ IsWordChar(s[Len(bad) + 2]))
         THEN <<".">> \o good \o SubProperty(Drop(s, Len(bad) + 2), bad, good)
         ELSE <<Head(s)>> \o SubProperty(Tail(s), bad, good)

\* the loop of normalize_properties over the aliases from the i-th on
RECURSIVE NormalizePropertiesFrom(_, _)
NormalizePropertiesFrom(cypher, i) ==
    IF i > Len(PROPERTY_ALIASES) THEN cypher
    ELSE NormalizePropertiesFrom(
             SubProperty(cypher, PROPERTY_ALIASES[i].bad, PROPERTY_ALIASES[i].good),
             i + 1)

normalize_properties(cypher) == NormalizePropertiesFrom(cypher, 1)

\* str.replace(old, new)
RECURSIVE Replace(_, _, _)
Replace(s, old, new) ==
    IF Len(s) < Len(old) THEN s
    ELSE IF StartsWith(old, s)
         THEN new \o Replace(Drop(s, Len(old) + 1), old, new)
         ELSE <<Head(s)>> \o Replace(Tail(s), old, new)

\* the loop of normalize_relationships over the aliases from the i-th on
RECURSIVE NormalizeRelationshipsFrom(_, _)
NormalizeRelationshipsFrom(cypher, i) ==
    IF i > Len(RELATIONSHIP_CANONICAL) THEN cypher
    ELSE NormalizeRelationshipsFrom(
             Replace(cypher,
                     <<":">> \o RELATIONSHIP_CANONICAL[i].bad,
                     <<":">> \o RELATIONSHIP_CANONICAL[i].good),
             i + 1)

normalize_relationships(cypher) == NormalizeRelationshipsFrom(cypher, 1)

\* re.findall(r":([A-Za-z_][A-Za-z0-9_]*)", cypher)
RECURSIVE rqa_FindLabels(_)
rqa_FindLabels(s) ==
    IF Len(s) < 2 THEN <<>>
    ELSE IF s[1] = ":" /\ (IsLetter(s[2]) \/ s[2] = "_")
         THEN LET name == TakeWord(Tail(s))
              IN  <<name>> \o rqa_FindLabels(Drop(s, Len(name) + 2))
         ELSE rqa_FindLabels(Tail(s))

rqa_validate_labels(cypher) ==
    LET label == FirstNotIn(
                     rqa_FindLabels(cypher),
                     rqa_VALID_LABELS \cup
                         {RELATIONSHIP_CANONICAL[i].good :
                              i \in 1..Len(RELATIONSHIP_CANONICAL)})
    IN  IF label # <<>> THEN Raise("unknown_label", label) ELSE NoError

rqa_prepare_cypher(cypher) ==
    IF rqa_assert_read_only(cypher).status = "error"
    THEN rqa_assert_read_only(cypher)
    ELSE LET normalized == normalize_relationships(cypher)
         IN  IF rqa_validate_labels(normalized).status = "error"
             THEN rqa_validate_labels(normalized)
             ELSE Ok(normalized)

\* the first try block of the tool: prepare_cypher, then validate_properties
rqa_ToolValidation(cypher) ==
    LET p == rqa_prepare_cypher(cypher)
    IN  IF p.status = "error" THEN p
        ELSE IF rqa_validate_properties(p.value).status = "error"
             THEN rqa_validate_properties(p.value)
             ELSE p

MaxLegacyFrags == 3

LegacyVocab ==
    { <<"M", "A", "T", "C", "H", " ", "(", "w", ":", "W", "o", "r", "k", ")">>, <<"(", "x", ":", "F", "o", "o", ")">>,
      <<"-", "[", ":", "A", "U", "T", "H", "O", "R", "E", "D", "]", "-", ">">>, <<"-", "[", ":", "A", "U", "T", "H", "O", "R", "E", "D", "_", "B", "Y", "]", "-", ">">>,
      <<"-", "[", ":", "T", "O", "P", "I", "C", "_", "I", "N", "]", "-", ">">>, <<"-", "[", ":", "W", "O", "R", "K", "_", "H", "A", "S", "_", "T", "O", "P", "I", "C", "]", "-", ">">>,
      <<" ", "W", "H", "E", "R", "E", " ", "w", ".", "y", "e", "a", "r", " ", ">", " ", "2", "0", "2", "0">>, <<" ", "A", "N", "D", " ", "w", ".", "p", "u", "b", "_", "y", "e", "a", "r", " ", "<", " ", "9">>,
      <<" ", "A", "N", "D", " ", "w", ".", "y", "e", "a", "r", "l", "y", " ", "=", " ", "1">>, <<" ", "R", "E", "T", "U", "R", "N", " ", "w", ".", "t", "i", "t", "l", "e">> }

InitLegacy ==
    /\ candidate \in QueriesOver(LegacyVocab, MaxLegacyFrags)
    /\ Idle

NormalizeRelationships ==
    /\ op = "none"
    /\ op' = "normalize_relationships"
    /\ result' = Ok(normalize_relationships(candidate))
    /\ UNCHANGED <<candidate, prev, database, scoring, analysis>>

NormalizeProperties ==
    /\ op = "none"
    /\ op' = "normalize_properties"
    /\ result' = Ok(normalize_properties(candidate))
    /\ UNCHANGED <<candidate, prev, database, scoring, analysis>>

\* The client is made outside a with block: a ValueError from __init__
\* returns before client is bound, and the finally clause closes a client
\* that was made.
RqaNeo4jQueryTool ==
    /\ op = "none"
    /\ op' = "rqa_neo4j_query_tool"
    /\ \E outcome \in BackendOutcomes :
         LET v == rqa_ToolValidation(candidate)
         IN  IF v.status = "error"
             THEN /\ result' = Raise("cypher_validation_error", candidate)
                  /\ UNCHANGED database
             ELSE /\ result' =
                        IF outcome = "ok" THEN Ok(<<>>)
                        ELSE IF outcome = "query_fails"
                             THEN Raise("query_execution_error", v.value)
                             ELSE Raise("database_connection_error", v.value)
                  /\ executed' = RunCypher(outcome, v.value)
                  /\ drivers' = WithClient(outcome)
    /\ UNCHANGED <<candidate, prev, scoring, analysis>>

NextLegacy == NormalizeRelationships \/ NormalizeProperties \/ RqaNeo4jQueryTool

SpecLegacy == InitLegacy /\ [][NextLegacy]_vars

\* the canonical name of a name under a list of aliases: the name itself
\* when it is no alias
CanonicalOf(name, aliases) ==
    IF \E i \in 1..Len(aliases) : aliases[i].bad = name
    THEN aliases[CHOOSE i \in 1..Len(aliases) : aliases[i].bad = name].good
    ELSE name

\* s with every relationship-type token ':ALIAS' and every property accessor
\* '.alias' that is a declared alias replaced by its canonical name
RECURSIVE CanonicalForm(_)
CanonicalForm(s) ==
    IF Len(s) < 2 THEN s
    ELSE IF (s[1] = ":" \/ s[1] = ".") /\ IsWordChar(s[2])
         THEN LET name == TakeWord(Tail(s))
              IN  <<s[1]>>
                  \o CanonicalOf(name, IF s[1] = ":" THEN RELATIONSHIP_CANONICAL
                                       ELSE PROPERTY_ALIASES)
                  \o CanonicalForm(Drop(s, Len(name) + 2))
         ELSE <<Head(s)>> \o CanonicalForm(Tail(s))

\* C6 as stated: a query that uses a declared property or relationship alias
\* and is valid otherwise (the gateway accepts it with the aliases written
\* canonically) is accepted by the gateway, and the string handed to the
\* executor has every alias replaced by its canonical name.
C6_AliasQueryAccepted ==
    (/\ op = "rqa_neo4j_query_tool"
     /\ CanonicalForm(candidate) # candidate
     /\ rqa_ToolValidation(CanonicalForm(candidate)).status = "ok")
        => (/\ result.type # "cypher_validation_error"
            /\ \A i \in 1..Len(executed) : executed[i] = CanonicalForm(candidate))

\* the names that follow the character mark in s: relationship-type tokens
\* for ':', property accessors for '.'
RECURSIVE TokensAfter(_, _)
TokensAfter(s, mark) ==
    IF Len(s) < 2 THEN {}
    ELSE (IF s[1] = mark /\ IsWordChar(s[2]) THEN {TakeWord(Tail(s))} ELSE {})
         \cup TokensAfter(Tail(s), mark)

\* every alias of the list that occurs as a token of the input is gone from
\* the output, where its canonical name occurs
AliasesReplaced(aliases, mark, input, output) ==
    \A i \in 1..Len(aliases) :
        aliases[i].bad \in TokensAfter(input, mark) =>
            /\ aliases[i].bad \notin TokensAfter(output, mark)
            /\ aliases[i].good \in TokensAfter(output, mark)

\* C7 as stated: for every declared alias A with canonical name C and every
\* query that holds A as a relationship-type token (:A) or property accessor
\* (.A), the normalised query holds no token equal to A and at least one
\* token equal to C.
C7_AliasRoundTrip ==
    /\ op = "normalize_relationships" =>
           AliasesReplaced(RELATIONSHIP_CANONICAL, ":", candidate, result.value)
    /\ op = "normalize_properties" =>
           AliasesReplaced(PROPERTY_ALIASES, ".", candidate, result.value)

----------------------------------------------------------------------------
(* network_agent.py: the composite confidence score.  Metric values are    *)
(* counted in tenths and the weights in tenths, so a score is the exact    *)
(* fraction num/den with den > 0.                                          *)

MaxMetricTenths == 10

\* what a record holds under a key: nothing (the key is absent), null, or a
\* number
Absent == [kind |-> "absent", value |-> 0]
Null == [kind |-> "null", value |-> 0]
Number(n) == [kind |-> "number", value |-> n]

\* record.get(key): None for an absent key and for a null value
IsNone(field) == field.kind # "number"

MetricValues == {Absent, Null} \cup {Number(n) : n \in -1..MaxMetricTenths}
CommunityValues == {Absent, Null, Number(0), Number(3)}

Records ==
    [ degree_centrality : MetricValues,
      betweenness_centrality : MetricValues,
      closeness_centrality : MetricValues,
      pagerank_score : MetricValues,
      community_id : CommunityValues ]

\* the weights dictionary, in tenths
weights ==
    << [metric |-> "degree_centrality", weight |-> 2],
       [metric |-> "betweenness_centrality", weight |-> 3],
       [metric |-> "closeness_centrality", weight |-> 2],
       [metric |-> "pagerank_score", weight |-> 3] >>

\* a null value aside, every value is counted
Counted_not_none(rec, metric) == ~ IsNone(rec[metric])

\* value is not None and value > 0
Counted(rec, metric) == ~ IsNone(rec[metric]) /\ rec[metric].value > 0

\* score after the loop over the weights from the i-th on, in hundredths
RECURSIVE score(_, _)
score(rec, i) ==
    IF i > Len(weights) THEN 0
    ELSE (IF Counted(rec, weights[i].metric)
          THEN weights[i].weight * rec[weights[i].metric].value ELSE 0)
         + score(rec, i + 1)

\* total_weight after the loop over the weights from the i-th on, in tenths
RECURSIVE total_weight(_, _)
total_weight(rec, i) ==
    IF i > Len(weights) THEN 0
    ELSE (IF Counted(rec, weights[i].metric) THEN weights[i].weight ELSE 0)
         + total_weight(rec, i + 1)

\* the normalisation alone, without the boost for a community_id
normalized_score_unboosted(rec) ==
    IF total_weight(rec, 1) > 0
    THEN [num |-> score(rec, 1), den |-> 10 * total_weight(rec, 1)]
    ELSE [num |-> 0, den |-> 1]

\* score / total_weight if total_weight > 0 else 0.0, then the boost of 1.2
\* for a record whose community_id is not None
normalized_score(rec) ==
    LET base == IF total_weight(rec, 1) > 0
                THEN [num |-> score(rec, 1), den |-> 10 * total_weight(rec, 1)]
                ELSE [num |-> 0, den |-> 1]
    IN  IF ~ IsNone(rec.community_id)
        THEN [num |-> 12 * base.num, den |-> 10 * base.den]
        ELSE base

\* min(x, 1.0)
MinWithOne(x) == IF x.num > x.den THEN [num |-> 1, den |-> 1] ELSE x

calculate_composite_confidence_unclamped(rec) == normalized_score(rec)

calculate_composite_confidence(rec) == MinWithOne(normalized_score(rec))

InitConfidence ==
    /\ candidate = <<>>
    /\ op = "none"
    /\ result = NoResult
    /\ prev = <<>>
    /\ executed = <<>>
    /\ drivers = [opened |-> 0, closed |-> 0]
    /\ record \in Records
    /\ confidence = NoScore
    /\ AnalysisIdle

CalculateCompositeConfidence ==
    /\ op = "none"
    /\ op' = "calculate_composite_confidence"
    /\ confidence' = calculate_composite_confidence(record)
    /\ UNCHANGED <<candidate, result, prev, database, record, analysis>>

NextConfidence == CalculateCompositeConfidence

SpecConfidence == InitConfidence /\ [][NextConfidence]_vars

\* C10: the composite confidence of every record is within [0, 1]; it is 0
\* when no weighted metric is present and positive; with the community bonus
\* it is still at most 1.
C10_ConfidenceWithinUnit ==
    op = "calculate_composite_confidence" =>
        /\ confidence.den > 0
        /\ 0 <= confidence.num
        /\ confidence.num <= confidence.den
        /\ (\A i \in 1..Len(weights) : ~ Counted(record, weights[i].metric))
               => confidence.num = 0

\* a record with a community_id whose boosted score is above 1 has been
\* scored, and its confidence is 1
C10_Witness ==
    /\ op = "calculate_composite_confidence"
    /\ ~ IsNone(record.community_id)
    /\ normalized_score(record).num > normalized_score(record).den
    /\ confidence.num = confidence.den


\* the fractions a and b are the same number
SameNumber(a, b) == a.num * b.den = b.num * a.den

\* weight * value (in hundredths) of a metric that is present and > 0, else 0
ReferenceTerm(rec, metric, weight) ==
    IF rec[metric].kind = "number" /\ rec[metric].value > 0
    THEN weight * rec[metric].value ELSE 0

\* the weight (in tenths) of a metric that is present and > 0, else 0
ReferenceWeight(rec, metric, weight) ==
    IF rec[metric].kind = "number" /\ rec[metric].value > 0 THEN weight ELSE 0

\* the reference value of the composite confidence: S/W or 0, times 1.2 for a
\* non-null community_id, at most 1
ReferenceConfidence(rec) ==
    LET S == ReferenceTerm(rec, "degree_centrality", 2)
             + ReferenceTerm(rec, "betweenness_centrality", 3)
             + ReferenceTerm(rec, "closeness_centrality", 2)
             + ReferenceTerm(rec, "pagerank_score", 3)
        W == ReferenceWeight(rec, "degree_centrality", 2)
             + ReferenceWeight(rec, "betweenness_centrality", 3)
             + ReferenceWeight(rec, "closeness_centrality", 2)
             + ReferenceWeight(rec, "pagerank_score", 3)
        bonus == rec.community_id.kind = "number"
        num == IF W > 0 THEN (IF bonus THEN 12 * S ELSE 10 * S) ELSE 0
        den == IF W > 0 THEN 100 * W ELSE 1
    IN  IF num > den THEN [num |-> 1, den |-> 1] ELSE [num |-> num, den |-> den]

\* C11: the composite confidence of every record equals the reference value:
\* the weighted mean of the metrics that are present and > 0 (0 when there is
\* none), times 1.2 exactly when community_id is non-null, clamped to 1.
C11_ConfidenceEqualsReference ==
    op = "calculate_composite_confidence" =>
        SameNumber(confidence, ReferenceConfidence(record))

\* a record with a null metric, a zero metric, a negative metric, a positive
\* metric and the community_id 0 has been scored, below 1
C11_Witness ==
    /\ op = "calculate_composite_confidence"
    /\ record.degree_centrality = Null
    /\ record.betweenness_centrality = Number(0)
    /\ record.closeness_centrality = Number(-1)
    /\ record.pagerank_score = Number(5)
    /\ record.community_id = Number(0)
    /\ SameNumber(confidence, [num |-> 6, den |-> 10])

\* the record of the example: degree_centrality 0.5, betweenness_centrality
\* null, closeness_centrality 0.0, pagerank_score 0.8, community_id 3
ExampleRecord ==
    [ degree_centrality |-> Number(5),
      betweenness_centrality |-> Null,
      closeness_centrality |-> Number(0),
      pagerank_score |-> Number(8),
      community_id |-> Number(3) ]

\* C12 as stated: the composite confidence of the example record is 1.0
C12_ExampleScoresOne ==
    (op = "calculate_composite_confidence" /\ record = ExampleRecord)
        => SameNumber(confidence, [num |-> 1, den |-> 1])

\* C12, amended: the composite confidence of the example record is 0.816,
\* which is ((0.2*0.5 + 0.3*0.8) / 0.5) * 1.2 and needs no clamping
C12_ExampleScore ==
    (op = "calculate_composite_confidence" /\ record = ExampleRecord)
        => SameNumber(confidence, [num |-> 816, den |-> 1000])

\* the example record has been scored
C12_Witness ==
    /\ op = "calculate_composite_confidence"
    /\ record = ExampleRecord
    /\ confidence.num < confidence.den


----------------------------------------------------------------------------
(* network_agent.py: _process_network_results, the ranking of the backend  *)
(* records of one analysis kind.  A title is modelled by its rank in the   *)
(* order of strings.                                                       *)

MaxRecords == 2

\* as many titles as a list has records
Titles == 1..MaxRecords

AnalysisTypes ==
    {"comprehensive", "community", "centrality", "shortest_path", "similarity", "other"}

\* a record with none of the keys the processing reads
BlankRecord ==
    [ title |-> 1,
      degree_centrality |-> Absent,
      betweenness_centrality |-> Absent,
      closeness_centrality |-> Absent,
      pagerank_score |-> Absent,
      community_id |-> Absent,
      confidence_score |-> Absent,
      totalCost |-> Absent,
      similarity_score |-> Absent,
      score |-> Absent ]

\* metric_map.get(analysis_type, "score") of _get_main_metric, and the key
\* the community branch reads
MetricKey(kind) ==
    CASE kind = "centrality" -> "pagerank_score"
      [] kind = "community" -> "confidence_score"
      [] kind = "shortest_path" -> "totalCost"
      [] kind = "similarity" -> "similarity_score"
      [] OTHER -> "score"

SampleValues == {Absent, Null, Number(-1), Number(0), Number(5), Number(12)}

\* the backend records of a kind: they differ in the keys the kind reads
BackendRecords(kind) ==
    IF kind = "comprehensive"
    THEN { [BlankRecord EXCEPT !.title = t, !.degree_centrality = d,
                               !.pagerank_score = p, !.community_id = c] :
             t \in Titles, d \in {Null, Number(5)},
             p \in {Number(0), Number(5), Number(10)}, c \in {Absent, Number(0)} }
    ELSE { [BlankRecord EXCEPT !.title = t, ![MetricKey(kind)] = v] :
             t \in Titles, v \in SampleValues }

\* the lists of at most n elements of S
RECURSIVE ListsOver(_, _)
ListsOver(S, n) ==
    IF n = 0 THEN {<<>>}
    ELSE ListsOver(S, n - 1)
         \cup {Append(l, x) : l \in {k \in ListsOver(S, n - 1) : Len(k) = n - 1}, x \in S}

\* a confidence score: None, or the number num/den
NoneScore == [none |-> TRUE, num |-> 0, den |-> 1]
Score(num, den) == [none |-> FALSE, num |-> num, den |-> den]

\* what a call returns: a dictionary of some shape with its records
Returned(shape, value) == [status |-> "ok", type |-> shape, value |-> value]

\* _get_main_metric: the score, or the TypeError of None > 0
get_main_metric(rec, kind) ==
    LET value == rec[MetricKey(kind)]
    IN  IF kind = "shortest_path"
        THEN IF value.kind = "null" THEN Raise("TypeError", <<>>)
             ELSE IF value.kind = "number" /\ value.value > 0
                  THEN Ok(Score(10, 10 + value.value))
                  ELSE Ok(Score(0, 1))
        ELSE IF value.kind = "number" THEN Ok(Score(value.value, 10))
             ELSE Ok(Score(0, 1))

\* the confidence computed for one record in the loop of
\* _process_network_results
confidence_score(rec, kind) ==
    IF kind = "comprehensive"
    THEN LET c == calculate_composite_confidence(rec)
         IN  Ok(Score(c.num, c.den))
    ELSE IF kind = "community"
         THEN CASE rec.confidence_score.kind = "absent" -> Ok(Score(0, 1))
                [] rec.confidence_score.kind = "null" -> Ok(NoneScore)
                [] OTHER -> Ok(Score(rec.confidence_score.value, 10))
         ELSE get_main_metric(rec, kind)

\* processed_records after the loop: dict(record) with its confidence_score
process_records(list, kind) ==
    [i \in 1..Len(list) |->
        [list[i] EXCEPT !.confidence_score = confidence_score(list[i], kind).value]]

\* a < b on two scores that are numbers
Less(a, b) == a.num * b.den < b.num * a.den

\* x put into a list sorted by decreasing confidence_score, behind the
\* elements that are not smaller
RECURSIVE Insert(_, _)
Insert(x, sorted) ==
    IF sorted = <<>> THEN <<x>>
    ELSE IF Less(Head(sorted).confidence_score, x.confidence_score)
         THEN <<x>> \o sorted
         ELSE <<Head(sorted)>> \o Insert(x, Tail(sorted))

\* x put into a list sorted by increasing confidence_score
RECURSIVE InsertAscending(_, _)
InsertAscending(x, sorted) ==
    IF sorted = <<>> THEN <<x>>
    ELSE IF Less(x.confidence_score, Head(sorted).confidence_score)
         THEN <<x>> \o sorted
         ELSE <<Head(sorted)>> \o InsertAscending(x, Tail(sorted))

RECURSIVE sort_ascending(_)
sort_ascending(list) ==
    IF list = <<>> THEN <<>>
    ELSE InsertAscending(list[Len(list)], sort_ascending(SubSeq(list, 1, Len(list) - 1)))

\* list.sort(key=confidence_score, reverse=True): stable, largest first
RECURSIVE sort_by_confidence(_)
sort_by_confidence(list) ==
    IF list = <<>> THEN <<>>
    ELSE Insert(list[Len(list)], sort_by_confidence(SubSeq(list, 1, Len(list) - 1)))

process_network_results(backend, kind) ==
    IF backend.error THEN Returned("error", <<>>)
    ELSE IF backend.records = <<>> THEN Returned("message", <<>>)
    ELSE IF \E i \in 1..Len(backend.records) :
                confidence_score(backend.records[i], kind).status = "error"
         THEN Raise("TypeError", <<>>)
         ELSE LET processed == process_records(backend.records, kind)
              IN  IF Len(processed) >= 2
                     /\ \E i \in 1..Len(processed) : processed[i].confidence_score.none
                  THEN Raise("TypeError", <<>>)
                  ELSE Returned("records", sort_by_confidence(processed))

InitRanking ==
    /\ analysis_type \in AnalysisTypes
    /\ \E error \in BOOLEAN :
         \E list \in ListsOver(BackendRecords(analysis_type), MaxRecords) :
             backend_result = [error |-> error, records |-> list]
    /\ candidate = <<>>
    /\ op = "none"
    /\ result = NoResult
    /\ prev = <<>>
    /\ executed = <<>>
    /\ drivers = [opened |-> 0, closed |-> 0]
    /\ record = NoRecord
    /\ confidence = NoScore
    /\ AgentIdle
    /\ SessionIdle
    /\ ChainIdle
    /\ NoCallers

ProcessNetworkResults ==
    /\ op = "none"
    /\ op' = "process_network_results"
    /\ result' = process_network_results(backend_result, analysis_type)
    /\ UNCHANGED <<candidate, prev, database, scoring, analysis>>

NextRanking == ProcessNetworkResults

SpecRanking == InitRanking /\ [][NextRanking]_vars


\* a processed record without the confidence_score it was given, to compare
\* it with a backend record
WithoutScore(rec) == [rec EXCEPT !.confidence_score = Absent]

\* the list out holds exactly the records of the list in, each once
SameRecords(out, in) ==
    /\ Len(out) = Len(in)
    /\ \E p \in Permutations(1..Len(in)) :
           \A i \in 1..Len(in) : WithoutScore(out[i]) = WithoutScore(in[p[i]])

\* C13: the records _process_network_results returns are in non-increasing
\* order of confidence_score, and they are exactly the input records, none
\* dropped or duplicated, each with a confidence_score.
C13_RankedByConfidence ==
    (op = "process_network_results" /\ result.type = "records") =>
        /\ SameRecords(result.value, backend_result.records)
        /\ \A i \in 1..Len(result.value) :
               DOMAIN result.value[i].confidence_score = {"none", "num", "den"}
        /\ \A i \in 1..(Len(result.value) - 1) :
               ~ Less(result.value[i].confidence_score,
                      result.value[i + 1].confidence_score)

\* two records that the backend returned with the smaller score first have
\* been ranked, the larger score first
C13_Witness ==
    /\ op = "process_network_results"
    /\ result.type = "records"
    /\ Len(result.value) = 2
    /\ Less(result.value[2].confidence_score, result.value[1].confidence_score)
    /\ WithoutScore(result.value[1]) = WithoutScore(backend_result.records[2])
    /\ WithoutScore(result.value[2]) = WithoutScore(backend_result.records[1])
    /\ backend_result.records[1] # backend_result.records[2]

\* C14 as stated: in the ranked output any two records with equal
\* confidence_score are in ascending order of title, whatever the order the
\* backend returned them in.
C14_TiesByTitle ==
    (op = "process_network_results" /\ result.type = "records") =>
        \A i, j \in 1..Len(result.value) :
            (/\ i < j
             /\ ~ Less(result.value[i].confidence_score, result.value[j].confidence_score)
             /\ ~ Less(result.value[j].confidence_score, result.value[i].confidence_score))
                => result.value[i].title <= result.value[j].title


----------------------------------------------------------------------------
(* network_agent.py: the graph projection.  A call of the agent's          *)
(* neo4j_tool is modelled at the tool's boundary: it returns records       *)
(* ("ok"), returns an error result ("error") or raises ("raises").         *)

ToolOutcomes == {"ok", "error", "raises"}

\* gds.graph.project fails for a name that is already projected
CreateOutcomes(exists) == IF exists THEN {"error", "raises"} ELSE ToolOutcomes

\* gds.graph.drop fails for a name that is not projected
DropOutcomes(exists) == IF exists THEN ToolOutcomes ELSE {"error", "raises"}

Call(query, outcome) == [query |-> query, outcome |-> outcome]

\* what an operation of the agent leaves: its return value, the tool calls
\* it made, the store and the flag
Effect(value, made, store, flag) ==
    [value |-> value, calls |-> made, projection |-> store, graph_created |-> flag]

\* ensure_graph_projection that runs the existence query and creates whatever
\* the answer is
ensure_graph_projection_ignoring_answer(exists_outcome, create_outcome, store, flag) ==
    LET check == Call("graph_exists", exists_outcome)
        create == Call("create_projection", create_outcome)
    IN  IF exists_outcome = "raises"
        THEN Effect(FALSE, <<check>>, store, flag)
        ELSE IF create_outcome = "ok"
             THEN Effect(TRUE, <<check, create>>, TRUE, TRUE)
             ELSE Effect(FALSE, <<check, create>>, store, flag)

\* ensure_graph_projection that trusts the flag _graph_created and asks the
\* store only when the flag is unset
ensure_graph_projection_trusting_flag(exists_outcome, create_outcome, store, flag) ==
    LET check == Call("graph_exists", exists_outcome)
        create == Call("create_projection", create_outcome)
    IN  IF flag THEN Effect(TRUE, <<>>, store, flag)
        ELSE IF exists_outcome = "raises"
        THEN Effect(FALSE, <<check>>, store, flag)
        ELSE IF exists_outcome = "ok" /\ store
             THEN Effect(TRUE, <<check>>, store, TRUE)
             ELSE IF create_outcome = "ok"
                  THEN Effect(TRUE, <<check, create>>, TRUE, TRUE)
                  ELSE Effect(FALSE, <<check, create>>, store, flag)

ensure_graph_projection(exists_outcome, create_outcome, store, flag) ==
    LET check == Call("graph_exists", exists_outcome)
        create == Call("create_projection", create_outcome)
    IN  IF exists_outcome = "raises"
        THEN Effect(FALSE, <<check>>, store, flag)
        ELSE IF exists_outcome = "ok" /\ store
             THEN Effect(TRUE, <<check>>, store, TRUE)
             ELSE IF create_outcome = "ok"
                  THEN Effect(TRUE, <<check, create>>, TRUE, TRUE)
                  ELSE Effect(FALSE, <<check, create>>, store, flag)

drop_graph_projection(drop_outcome, store, flag) ==
    IF drop_outcome = "ok"
    THEN Effect(TRUE, <<Call("drop_graph", drop_outcome)>>, FALSE, FALSE)
    ELSE Effect(FALSE, <<Call("drop_graph", drop_outcome)>>, store, flag)

MaxToolCalls == 5

InitProjection ==
    /\ projection \in BOOLEAN
    /\ graph_created = FALSE
    /\ tool_calls = <<>>
    /\ request = NoRequest
    /\ RankingIdle
    /\ SessionIdle
    /\ ChainIdle
    /\ NoCallers
    /\ candidate = <<>>
    /\ op = "none"
    /\ result = NoResult
    /\ prev = <<>>
    /\ executed = <<>>
    /\ drivers = [opened |-> 0, closed |-> 0]
    /\ record = NoRecord
    /\ confidence = NoScore

\* the state after an operation of the agent with the effect e
AgentDone(name, e) ==
    /\ op' = name
    /\ result' = Ok(e.value)
    /\ tool_calls' = tool_calls \o e.calls
    /\ projection' = e.projection
    /\ graph_created' = e.graph_created

EnsureGraphProjection ==
    /\ Len(tool_calls) + 2 <= MaxToolCalls
    /\ \E exists_outcome \in ToolOutcomes :
         \E create_outcome \in CreateOutcomes(projection) :
             AgentDone("ensure_graph_projection",
                       ensure_graph_projection(exists_outcome, create_outcome,
                                               projection, graph_created))
    /\ UNCHANGED <<candidate, prev, database, scoring, ranking, request, interactive, checks_run, callers>>

DropGraphProjection ==
    /\ Len(tool_calls) + 1 <= MaxToolCalls
    /\ \E drop_outcome \in DropOutcomes(projection) :
         AgentDone("drop_graph_projection",
                   drop_graph_projection(drop_outcome, projection, graph_created))
    /\ UNCHANGED <<candidate, prev, database, scoring, ranking, request, interactive, checks_run, callers>>

NextProjection == EnsureGraphProjection \/ DropGraphProjection

SpecProjection == InitProjection /\ [][NextProjection]_vars

\* between two successful create calls of the log there is a drop call
OneCreatePerDrop ==
    \A i, j \in 1..Len(tool_calls) :
        (/\ i < j
         /\ tool_calls[i] = Call("create_projection", "ok")
         /\ tool_calls[j] = Call("create_projection", "ok"))
            => \E m \in i..j : tool_calls[m].query = "drop_graph"

\* an ensure whose existence query succeeded on a store that has the
\* projection returns success, makes no other call and leaves the store as
\* it was
EnsureOnExistingIsNoOp ==
    (/\ op' = "ensure_graph_projection"
     /\ projection
     /\ Len(tool_calls') > Len(tool_calls)
     /\ tool_calls'[Len(tool_calls) + 1] = Call("graph_exists", "ok"))
        => (/\ result' = Ok(TRUE)
            /\ tool_calls' = Append(tool_calls, Call("graph_exists", "ok"))
            /\ projection' = projection)

\* C16: when the projection exists in the store and the existence query
\* succeeds, ensure_graph_projection returns success, issues no create call
\* and leaves the store unchanged; a successful ensure leaves the projection
\* in the store, so an ensure right after it is such a no-op; and ensure
\* calls with no drop between them make at most one successful create.
C16_EnsureIdempotent ==
    /\ [](OneCreatePerDrop
          /\ ((op = "ensure_graph_projection" /\ result = Ok(TRUE)) => projection))
    /\ [][EnsureOnExistingIsNoOp]_vars

\* an ensure created the projection and the ensure after it succeeded with
\* the existence query alone
C16_Witness ==
    /\ op = "ensure_graph_projection"
    /\ result = Ok(TRUE)
    /\ Len(tool_calls) = 3
    /\ tool_calls[2] = Call("create_projection", "ok")
    /\ tool_calls[3] = Call("graph_exists", "ok")


----------------------------------------------------------------------------
(* network_agent.py: find_related_by_network_analysis                      *)

MaxKinds == 2

\* supported_types of NetworkAnalysisConfig.validate_analysis_types
supported_types ==
    <<"comprehensive", "community", "centrality", "shortest_path", "similarity">>

\* validate_analysis_types: the requested kinds that are supported, in the
\* order requested
RECURSIVE validate_analysis_types(_)
validate_analysis_types(requested) ==
    IF requested = <<>> THEN <<>>
    ELSE (IF Head(requested) \in Range(supported_types) THEN <<Head(requested)>> ELSE <<>>)
         \o validate_analysis_types(Tail(requested))

\* query_map of _run_analysis_type
query_map ==
    [ comprehensive |-> "comprehensive_network_analysis",
      community |-> "find_related_by_centrality",
      centrality |-> "pagerank",
      shortest_path |-> "shortest_path",
      similarity |-> "node_similarity" ]

\* how the algorithm query of a kind ends: the tool raises, returns an error
\* result, returns no records, or returns records
AlgorithmOutcomes == {"raises", "error", "empty", "records"}

\* the records an algorithm query returns: two works, the first with the
\* smaller metric
AlgorithmRecords(kind) ==
    IF kind = "comprehensive"
    THEN << [BlankRecord EXCEPT !.title = 1, !.degree_centrality = Number(5),
                                !.pagerank_score = Number(0)],
            [BlankRecord EXCEPT !.title = 2, !.pagerank_score = Number(10),
                                !.community_id = Number(0)] >>
    ELSE << [BlankRecord EXCEPT !.title = 1, ![MetricKey(kind)] = Number(5)],
            [BlankRecord EXCEPT !.title = 2, ![MetricKey(kind)] = Number(12)] >>

\* the result of the tool call of _run_analysis_type that did not raise
ToolResult(kind, outcome) ==
    [ error |-> outcome = "error",
      records |-> IF outcome = "records" THEN AlgorithmRecords(kind) ELSE <<>> ]

\* results[analysis_type] after one turn of the loop: the processed result,
\* or the error marker of the except clause
AnalysisEntry(kind, outcome) ==
    IF outcome = "raises" THEN Returned("error", <<>>)
    ELSE LET processed == process_network_results(ToolResult(kind, outcome), kind)
         IN  IF processed.status = "error" THEN Returned("error", <<>>)
             ELSE processed

\* a loop that ends at the first kind whose call raises
RECURSIVE run_analyses_until_failure(_, _, _)
run_analyses_until_failure(analysis_types, backend, results) ==
    IF analysis_types = <<>> \/ backend[Head(analysis_types)] = "raises" THEN results
    ELSE LET kind == Head(analysis_types)
         IN  run_analyses_until_failure(
                 Tail(analysis_types), backend,
                 [k \in DOMAIN results \cup {kind} |->
                     IF k = kind THEN AnalysisEntry(kind, backend[kind]) ELSE results[k]])

\* the loop over analysis_types: results, a dictionary from kinds to entries
RECURSIVE run_analyses(_, _, _)
run_analyses(analysis_types, backend, results) ==
    IF analysis_types = <<>> THEN results
    ELSE LET kind == Head(analysis_types)
         IN  run_analyses(
                 Tail(analysis_types), backend,
                 [k \in DOMAIN results \cup {kind} |->
                     IF k = kind THEN AnalysisEntry(kind, backend[kind]) ELSE results[k]])

\* the tool calls of the loop, in order
algorithm_calls(analysis_types, backend) ==
    [i \in 1..Len(analysis_types) |->
        Call(query_map[analysis_types[i]], backend[analysis_types[i]])]

EmptyResults == [k \in {} |-> Returned("error", <<>>)]

\* find_related_by_network_analysis that goes on to the algorithm queries
\* whatever ensure_graph_projection returned
find_related_ignoring_ensure(req, exists_outcome, create_outcome, store, flag) ==
    IF ~ req.title_keyword /\ ~ req.work_id
    THEN Effect(Returned("error", <<>>), <<>>, store, flag)
    ELSE LET ensured == ensure_graph_projection(exists_outcome, create_outcome, store, flag)
             analysis_types == validate_analysis_types(req.analysis_types)
         IN  [ensured EXCEPT
                 !.value = Returned("network_analysis",
                                    run_analyses(analysis_types, req.backend, EmptyResults)),
                 !.calls = ensured.calls \o algorithm_calls(analysis_types, req.backend)]

find_related_by_network_analysis(req, exists_outcome, create_outcome, store, flag) ==
    IF ~ req.title_keyword /\ ~ req.work_id
    THEN Effect(Returned("error", <<>>), <<>>, store, flag)
    ELSE LET ensured == ensure_graph_projection(exists_outcome, create_outcome, store, flag)
             analysis_types == validate_analysis_types(req.analysis_types)
         IN  IF ~ ensured.value
             THEN [ensured EXCEPT !.value = Returned("error", <<>>)]
             ELSE [ensured EXCEPT
                     !.value = Returned("network_analysis",
                                        run_analyses(analysis_types, req.backend, EmptyResults)),
                     !.calls = ensured.calls \o algorithm_calls(analysis_types, req.backend)]

\* the requests: a selector, the kinds asked for, and how the backend ends
\* the algorithm query of each kind asked for
Requests ==
    { r \in [ title_keyword : BOOLEAN,
              work_id : BOOLEAN,
              analysis_types : ListsOver(Range(supported_types) \cup {"sentiment"}, MaxKinds),
              backend : [Range(supported_types) -> AlgorithmOutcomes] ] :
        \A k \in Range(supported_types) :
            k \notin Range(r.analysis_types) => r.backend[k] = "records" }

InitAnalysis ==
    /\ projection \in BOOLEAN
    /\ graph_created = FALSE
    /\ tool_calls = <<>>
    /\ request = NoRequest
    /\ RankingIdle
    /\ SessionIdle
    /\ ChainIdle
    /\ NoCallers
    /\ candidate = <<>>
    /\ op = "none"
    /\ result = NoResult
    /\ prev = <<>>
    /\ executed = <<>>
    /\ drivers = [opened |-> 0, closed |-> 0]
    /\ record = NoRecord
    /\ confidence = NoScore

FindRelatedByNetworkAnalysis ==
    /\ op = "none"
    /\ \E req \in Requests :
         \E exists_outcome \in ToolOutcomes :
             \E create_outcome \in CreateOutcomes(projection) :
                 LET e == find_related_by_network_analysis(
                              req, exists_outcome, create_outcome, projection, graph_created)
                 IN  /\ request' = req
                     /\ op' = "find_related_by_network_analysis"
                     /\ result' = e.value
                     /\ tool_calls' = tool_calls \o e.calls
                     /\ projection' = e.projection
                     /\ graph_created' = e.graph_created
    /\ UNCHANGED <<candidate, prev, database, scoring, ranking, interactive, checks_run, callers>>

NextAnalysis == FindRelatedByNetworkAnalysis

SpecAnalysis == InitAnalysis /\ [][NextAnalysis]_vars


\* the supported kinds a request asks for
RequestedKinds(req) == Range(req.analysis_types) \cap Range(supported_types)

\* C15: once the projection is ensured, find_related_by_network_analysis
\* returns (it does not raise) a result map with exactly one entry per
\* requested supported kind: an error marker for each kind whose backend call
\* failed, by an error result or by raising, and the processed result of its
\* own backend records for every other kind.
C15_FailureIsolated ==
    (op = "find_related_by_network_analysis" /\ result.type = "network_analysis") =>
        /\ result.status = "ok"
        /\ DOMAIN result.value = RequestedKinds(request)
        /\ \A k \in RequestedKinds(request) :
               IF request.backend[k] \in {"raises", "error"}
               THEN result.value[k].type = "error"
               ELSE result.value[k] =
                        process_network_results(ToolResult(k, request.backend[k]), k)

\* community was asked for before centrality, the community call raised and
\* the centrality call returned records: the map has the error marker and
\* the ranked records
C15_Witness ==
    /\ op = "find_related_by_network_analysis"
    /\ result.type = "network_analysis"
    /\ request.analysis_types = <<"community", "centrality">>
    /\ request.backend["community"] = "raises"
    /\ result.value["community"].type = "error"
    /\ result.value["centrality"].type = "records"
    /\ Len(result.value["centrality"].value) = 2


----------------------------------------------------------------------------
(* network_agent.py: _process_community_results.  A membership record is   *)
(* [community_id, work_id]; the works of a backend result are numbered in  *)
(* the order the backend returned them.                                    *)

MaxMembers == 7
CommunityIds == {1, 2, 3}

\* works[:5]
SampleSize == 5

\* the backend results: each work in order, with its community
MembershipLists ==
    { [i \in 1..Len(ids) |-> [community_id |-> ids[i], work_id |-> i]] :
        ids \in ListsOver(CommunityIds, MaxMembers) }

\* the keys of the dictionary communities, in the order they were inserted
RECURSIVE community_keys(_, _)
community_keys(list, seen) ==
    IF list = <<>> THEN <<>>
    ELSE IF Head(list).community_id \in seen
         THEN community_keys(Tail(list), seen)
         ELSE <<Head(list).community_id>>
              \o community_keys(Tail(list), seen \cup {Head(list).community_id})

\* communities[community_id]: the works appended for the community, in order
RECURSIVE community_works(_, _)
community_works(list, community_id) ==
    IF list = <<>> THEN <<>>
    ELSE (IF Head(list).community_id = community_id
          THEN <<[work_id |-> Head(list).work_id]>> ELSE <<>>)
         \o community_works(Tail(list), community_id)

\* the first n elements of a list
FirstOf(list, n) == SubSeq(list, 1, IF Len(list) < n THEN Len(list) ELSE n)

\* a CommunityInfo that shows every work
community_info_unabridged(list, community_id) ==
    LET works == community_works(list, community_id)
    IN  [ community_id |-> community_id,
          size |-> Len(works),
          works |-> works,
          total_works |-> Len(works) ]

\* the CommunityInfo made for one community
community_info(list, community_id) ==
    LET works == community_works(list, community_id)
    IN  [ community_id |-> community_id,
          size |-> Len(works),
          works |-> FirstOf(works, SampleSize),
          total_works |-> Len(works) ]

\* x put into a list sorted by decreasing size, behind the elements that are
\* not smaller
RECURSIVE InsertBySize(_, _)
InsertBySize(x, sorted) ==
    IF sorted = <<>> THEN <<x>>
    ELSE IF Head(sorted).size < x.size
         THEN <<x>> \o sorted
         ELSE <<Head(sorted)>> \o InsertBySize(x, Tail(sorted))

\* community_stats.sort(key=size, reverse=True): stable, largest first
RECURSIVE sort_by_size(_)
sort_by_size(stats) ==
    IF stats = <<>> THEN <<>>
    ELSE InsertBySize(stats[Len(stats)], sort_by_size(SubSeq(stats, 1, Len(stats) - 1)))

\* the largest of the numbers of a non-empty sequence
RECURSIVE Max(_)
Max(numbers) ==
    IF Len(numbers) = 1 THEN numbers[1]
    ELSE IF Head(numbers) >= Max(Tail(numbers)) THEN Head(numbers) ELSE Max(Tail(numbers))

process_community_results(backend) ==
    IF backend.error THEN Returned("error", <<>>)
    ELSE IF backend.records = <<>> THEN Returned("message", <<>>)
    ELSE LET keys == community_keys(backend.records, {})
             community_stats == [i \in 1..Len(keys) |-> community_info(backend.records, keys[i])]
         IN  Returned("communities",
                      [ total_communities |-> Len(keys),
                        total_works |-> Len(backend.records),
                        communities |-> sort_by_size(community_stats),
                        largest_community_size |->
                            Max([i \in 1..Len(keys) |->
                                    Len(community_works(backend.records, keys[i]))]) ])

InitCommunity ==
    /\ \E error \in BOOLEAN :
         \E list \in MembershipLists :
             backend_result = [error |-> error, records |-> list]
    /\ analysis_type = "none"
    /\ AgentIdle
    /\ SessionIdle
    /\ ChainIdle
    /\ NoCallers
    /\ candidate = <<>>
    /\ op = "none"
    /\ result = NoResult
    /\ prev = <<>>
    /\ executed = <<>>
    /\ drivers = [opened |-> 0, closed |-> 0]
    /\ record = NoRecord
    /\ confidence = NoScore

ProcessCommunityResults ==
    /\ op = "none"
    /\ op' = "process_community_results"
    /\ result' = process_community_results(backend_result)
    /\ UNCHANGED <<candidate, prev, database, scoring, analysis>>

NextCommunity == ProcessCommunityResults

SpecCommunity == InitCommunity /\ [][NextCommunity]_vars

\* the records of the list that are of the community, in input order
MembersOf(list, community_id) ==
    SelectSeq(list, LAMBDA r : r.community_id = community_id)

\* the sum of the sizes of the summaries from the i-th on
RECURSIVE SizesFrom(_, _)
SizesFrom(summaries, i) ==
    IF i > Len(summaries) THEN 0 ELSE summaries[i].size + SizesFrom(summaries, i + 1)

C18_DriversClosed ==
    op = "rqa_neo4j_query_tool" => drivers.closed = drivers.opened


----------------------------------------------------------------------------
(* research_query_agent.py: validate_query_input and                       *)
(* CLIInterface.run_interactive_mode.  One step of the session is one turn *)
(* of the loop.                                                            *)

max_query_length == 10000

\* re.search(r'<script[^>]*>', query, re.IGNORECASE)
RECURSIVE HasScriptTag(_)
HasScriptTag(s) ==
    IF s = <<>> THEN FALSE
    ELSE \/ /\ StartsWith(<<"<", "S", "C", "R", "I", "P", "T">>, upper(s))
            /\ ">" \in Range(Drop(s, 8))
         \/ HasScriptTag(Tail(s))

\* the dangerous_patterns other than the script tag, upper-cased
DangerousSubstrings ==
    { <<"J", "A", "V", "A", "S", "C", "R", "I", "P", "T", ":">>, <<"D", "A", "T", "A", ":", "T", "E", "X", "T", "/", "H", "T", "M", "L">>, <<"V", "B", "S", "C", "R", "I", "P", "T", ":">> }

validate_query_input(query) ==
    LET stripped == strip(query)
    IN  IF stripped = <<>> THEN Raise("ValueError", <<"Q", "u", "e", "r", "y", " ", "c", "a", "n", "n", "o", "t", " ", "b", "e", " ", "e", "m", "p", "t", "y">>)
        ELSE IF Len(stripped) > max_query_length
             THEN Raise("ValueError", <<"Q", "u", "e", "r", "y", " ", "t", "o", "o", " ", "l", "o", "n", "g">>)
             ELSE IF \/ HasScriptTag(stripped)
                     \/ \E pattern \in DangerousSubstrings : Contains(pattern, upper(stripped))
                  THEN Raise("ValueError", <<"Q", "u", "e", "r", "y", " ", "c", "o", "n", "t", "a", "i", "n", "s", " ", "p", "o", "t", "e", "n", "t", "i", "a", "l", "l", "y", " ", "d", "a", "n", "g", "e", "r", "o", "u", "s", " ", "c", "o", "n", "t", "e", "n", "t">>)
                  ELSE Ok(stripped)

\* the words that end the session
ExitCommands == { <<"e", "x", "i", "t">>, <<"q", "u", "i", "t">>, <<"q">> }

\* what a turn of the loop does with the line read: the session goes on or
\* returns, and agent.query is called or not
Turn(next, called) == [session |-> next, called |-> called]

\* a loop that ends when agent.query raises
interactive_turn_ending_on_error(line, outcome) ==
    LET query == strip(line)
    IN  IF query = <<>> THEN Turn("running", <<>>)
        ELSE IF lower(query) \in ExitCommands THEN Turn("returned", <<>>)
        ELSE IF validate_query_input(query).status = "error" THEN Turn("running", <<>>)
        ELSE Turn(IF outcome = "raises" THEN "returned" ELSE "running",
                  <<[agent |-> "self.agent",
                     query |-> validate_query_input(query).value,
                     outcome |-> outcome]>>)

\* the body of the while loop of run_interactive_mode for a line read;
\* outcome says whether agent.query returns or raises
interactive_turn(line, outcome) ==
    LET query == strip(line)
    IN  IF query = <<>> THEN Turn("running", <<>>)
        ELSE IF lower(query) \in ExitCommands THEN Turn("returned", <<>>)
        ELSE IF validate_query_input(query).status = "error" THEN Turn("running", <<>>)
        ELSE Turn("running",
                  <<[agent |-> "self.agent",
                     query |-> validate_query_input(query).value,
                     outcome |-> outcome]>>)

MaxLines == 3

LineVocab ==
    { <<>>, <<" ", " ">>, <<"e", "x", "i", "t">>, <<"Q", "u", "i", "t">>, <<" ", "q", " ">>,
      <<"e", "x", "i", "t", " ", "n", "o", "w">>, <<" ", "w", "o", "r", "k", "s", " ", "o", "n", " ", "g", "r", "a", "p", "h", "s", " ">>, <<"w", "h", "o", " ", "w", "r", "o", "t", "e", " ", "i", "t", "?">>,
      <<"<", "S", "c", "r", "i", "p", "t", " ", "s", "r", "c", "=", "a", ">">>, <<"j", "a", "v", "a", "s", "c", "r", "i", "p", "t", ":", "1">> }

InitInteractive ==
    /\ input_lines \in ListsOver(LineVocab, MaxLines)
    /\ lines_read = 0
    /\ agent_calls = <<>>
    /\ session = "running"
    /\ ChainIdle
    /\ NoCallers
    /\ RankingIdle
    /\ AgentIdle
    /\ candidate = <<>>
    /\ op = "none"
    /\ result = NoResult
    /\ prev = <<>>
    /\ executed = <<>>
    /\ drivers = [opened |-> 0, closed |-> 0]
    /\ record = NoRecord
    /\ confidence = NoScore

\* a turn of the loop in which input() returns the next line
ReadLine ==
    /\ session = "running"
    /\ lines_read < Len(input_lines)
    /\ \E outcome \in {"returns", "raises"} :
         LET turn == interactive_turn(input_lines[lines_read + 1], outcome)
         IN  /\ session' = turn.session
             /\ agent_calls' = agent_calls \o turn.called
    /\ lines_read' = lines_read + 1
    /\ op' = "run_interactive_mode"
    /\ UNCHANGED <<candidate, result, prev, database, scoring, ranking, agent, input_lines,
                   checks_run, callers>>

\* a turn of the loop in which input() raises EOFError: the handler of
\* Exception reports it and the loop goes on
ReadAtEndOfInput ==
    /\ session \in {"running", "at_eof"}
    /\ lines_read = Len(input_lines)
    /\ session' = "at_eof"
    /\ op' = "run_interactive_mode"
    /\ UNCHANGED <<candidate, result, prev, database, scoring, ranking, agent,
                   input_lines, lines_read, agent_calls, checks_run, callers>>

NextInteractive == ReadLine \/ ReadAtEndOfInput

SpecInteractive == InitInteractive /\ [][NextInteractive]_vars


\* the lines read so far, and those read before the first exit command
LinesRead == SubSeq(input_lines, 1, lines_read)

IsExitCommand(line) == lower(strip(line)) \in ExitCommands

RECURSIVE BeforeFirstExit(_)
BeforeFirstExit(lines) ==
    IF lines = <<>> \/ IsExitCommand(Head(lines)) THEN <<>>
    ELSE <<Head(lines)>> \o BeforeFirstExit(Tail(lines))

\* the queries the session owes the agent for a list of lines: the trimmed
\* text of each line that passes validate_query_input, in input order
RECURSIVE ExpectedQueries(_)
ExpectedQueries(lines) ==
    IF lines = <<>> THEN <<>>
    ELSE (IF validate_query_input(Head(lines)).status = "ok"
          THEN <<strip(Head(lines))>> ELSE <<>>)
         \o ExpectedQueries(Tail(lines))

QueriesCalled == [i \in 1..Len(agent_calls) |-> agent_calls[i].query]

\* C19: in an interactive session agent.query has been called exactly once,
\* in input order and on the same agent, for each line read that passes
\* validate_query_input and precedes the first exit command; the session has
\* returned exactly when the last line read is the first exit command, so a
\* query that raised did not end it and no line after the exit is read.
C19_InteractiveSession ==
    op = "run_interactive_mode" =>
        /\ QueriesCalled = ExpectedQueries(BeforeFirstExit(LinesRead))
        /\ \A i \in 1..Len(agent_calls) : agent_calls[i].agent = "self.agent"
        /\ session = "returned" <=>
              /\ lines_read > 0
              /\ IsExitCommand(input_lines[lines_read])
        /\ BeforeFirstExit(LinesRead) \in
              {LinesRead, SubSeq(input_lines, 1, lines_read - 1)}

\* a session in which a query raised, a later line was still passed to the
\* agent, and the exit command then ended the session
C19_Witness ==
    /\ op = "run_interactive_mode"
    /\ session = "returned"
    /\ Len(agent_calls) = 2
    /\ agent_calls[1].outcome = "raises"
    /\ lines_read = 3


----------------------------------------------------------------------------
(* CypherValidator.validate_full as a chain of checks: which checks a call *)
(* evaluates, in which order, and which of them rejects the query.         *)

Check(name, outcome) == [check |-> name, outcome |-> outcome]

\* a chain that runs the structure check before the read-only check
validation_chain_structure_first(cypher) ==
    LET cleaned == Clean(cypher)
        cypher_upper == upper(cleaned)
    IN  << Check("empty",
                 IF cypher = <<>> \/ strip(cypher) = <<>>
                 THEN Raise("empty", <<>>) ELSE NoError),
           Check("structure_validation", validate_query_structure(cleaned)),
           Check("read_only_check",
                 IF \E keyword \in FORBIDDEN_KEYWORDS : Contains(keyword, cypher_upper)
                 THEN Raise("read_only_check", <<>>) ELSE NoError),
           Check("procedure_validation",
                 IF Contains(<<"C", "A", "L", "L", " ">>, cypher_upper)
                 THEN validate_procedure_calls(cleaned) ELSE NoError),
           Check("property_validation", validate_properties(cleaned)) >>
        \o (IF ~ Contains(<<"C", "A", "L", "L", " ", "g", "d", "s", ".">>, cypher_upper)
            THEN << Check("label_validation", validate_labels(cleaned)),
                    Check("relationship_validation", validate_relationships(cleaned)) >>
            ELSE <<>>)

\* the checks of validate_full (those of prepare_cypher and assert_read_only
\* included) in the order the code reaches them, each with what it answers
\* for the query
validation_chain(cypher) ==
    LET cleaned == Clean(cypher)
        cypher_upper == upper(cleaned)
    IN  << Check("empty",
                 IF cypher = <<>> \/ strip(cypher) = <<>>
                 THEN Raise("empty", <<>>) ELSE NoError),
           Check("read_only_check",
                 IF \E keyword \in FORBIDDEN_KEYWORDS : Contains(keyword, cypher_upper)
                 THEN Raise("read_only_check", <<>>) ELSE NoError),
           Check("procedure_validation",
                 IF Contains(<<"C", "A", "L", "L", " ">>, cypher_upper)
                 THEN validate_procedure_calls(cleaned) ELSE NoError),
           Check("structure_validation", validate_query_structure(cleaned)),
           Check("property_validation", validate_properties(cleaned)) >>
        \o (IF ~ Contains(<<"C", "A", "L", "L", " ", "g", "d", "s", ".">>, cypher_upper)
            THEN << Check("label_validation", validate_labels(cleaned)),
                    Check("relationship_validation", validate_relationships(cleaned)) >>
            ELSE <<>>)

\* a raised ValidationError leaves validate_full: the checks evaluated are
\* those up to and including the first that raises
RECURSIVE UntilRaise(_)
UntilRaise(checks) ==
    IF checks = <<>> THEN <<>>
    ELSE IF Head(checks).outcome.status = "error" THEN <<Head(checks)>>
         ELSE <<Head(checks)>> \o UntilRaise(Tail(checks))

checks_evaluated(cypher) == UntilRaise(validation_chain(cypher))

\* what validate_full returns or raises, from the checks it evaluated
chain_result(cypher) ==
    LET evaluated == checks_evaluated(cypher)
        last == evaluated[Len(evaluated)].outcome
    IN  IF last.status = "error" THEN last ELSE Ok(Clean(cypher))

MaxChainFrags == 3

ChainVocab ==
    { <<" ">>, <<"C", "R", "E", "A", "T", "E", " ">>, <<"C", "A", "L", "L", " ", "a", "p", "o", "c", ".", "x", " ">>, <<"(">>, <<"(", "x", ":", "F", "o", "o", ")">>,
      <<"[", ":", "W", "o", "r", "k", "]">>, <<"'", "$", "p", "'">>, <<" ", "R", "E", "T", "U", "R", "N", " ", "1">> }

InitChain ==
    /\ candidate \in QueriesOver(ChainVocab, MaxChainFrags)
    /\ Idle

ValidateFullChain ==
    /\ op = "none"
    /\ op' = "validate_full"
    /\ result' = chain_result(candidate)
    /\ checks_run' = [i \in 1..Len(checks_evaluated(candidate)) |->
                         checks_evaluated(candidate)[i].check]
    /\ UNCHANGED <<candidate, prev, database, scoring, ranking, agent, interactive,
                   callers>>

NextChain == ValidateFullChain

SpecChain == InitChain /\ [][NextChain]_vars

\* the chain yields what validate_full yields
ChainIsValidateFull ==
    op = "validate_full" => result = validate_full(candidate)


\* the order in which validate_full reaches its checks
CheckOrder ==
    << "empty", "read_only_check", "procedure_validation", "structure_validation",
       "property_validation", "label_validation", "relationship_validation" >>

\* the stages of the chain: the checks on labels, relationships and
\* properties form the last one
Stage(check) ==
    CASE check = "empty" -> 1
      [] check = "read_only_check" -> 2
      [] check = "procedure_validation" -> 3
      [] check = "structure_validation" -> 4
      [] OTHER -> 5

\* the query violates the check, each check taken on its own: the empty
\* check on the raw text, the others on the cleaned text
Violates(cypher, check) ==
    LET cleaned == Clean(cypher)
    IN  CASE check = "empty" -> strip(cypher) = <<>>
          [] check = "read_only_check" ->
                \E keyword \in FORBIDDEN_KEYWORDS : Contains(keyword, upper(cleaned))
          [] check = "procedure_validation" ->
                FirstDisallowed(FindCalls(cleaned)) # <<>>
          [] check = "structure_validation" ->
                validate_query_structure(cleaned).status = "error"
          [] check = "property_validation" ->
                validate_properties(cleaned).status = "error"
          [] check = "label_validation" ->
                validate_labels(cleaned).status = "error"
          [] check = "relationship_validation" ->
                validate_relationships(cleaned).status = "error"

ChecksViolated(cypher) == {check \in Range(CheckOrder) : Violates(cypher, check)}

----------------------------------------------------------------------------
(* _process_network_results: the range of the confidence scores.           *)

\* the score is a number of the unit interval
InUnitInterval(s) ==
    /\ ~ s.none
    /\ s.num >= 0
    /\ s.num <= s.den

\* C21 as stated: every record of the ranked output of
\* _process_network_results has a confidence_score within [0, 1], for every
\* analysis kind and every backend metric value.
C21_RankedScoresWithinUnit ==
    (op = "process_network_results" /\ result.type = "records") =>
        \A i \in 1..Len(result.value) :
            InUnitInterval(result.value[i].confidence_score)


----------------------------------------------------------------------------
(* find_related_by_network_analysis: the order of its backend calls.       *)

IsAlgorithmCall(c) == \E k \in DOMAIN query_map : c.query = query_map[k]

IsEnsureCall(c) == c.query \in {"graph_exists", "create_projection"}

AlgorithmCallsMade == SelectSeq(tool_calls, IsAlgorithmCall)

EnsureCallsMade == SelectSeq(tool_calls, IsEnsureCall)

\* ensure_graph_projection returned True: its last backend call succeeded,
\* and that call was the create call or an existence query that found the
\* projection
EnsureReturnedSuccess ==
    /\ EnsureCallsMade # <<>>
    /\ LET last == EnsureCallsMade[Len(EnsureCallsMade)]
       IN  /\ last.outcome = "ok"
           /\ last.query = "create_projection" \/ Len(EnsureCallsMade) = 1
           /\ last.query = "graph_exists" => projection

SelectorGiven == request.title_keyword \/ request.work_id

\* C22: find_related_by_network_analysis executes an algorithm query only
\* after ensure_graph_projection has returned success in the same call;
\* without title_keyword and work_id it returns an error result and makes no
\* backend call; when ensure fails it returns an error result and executes
\* no algorithm query.
C22_AlgorithmsAfterEnsure ==
    op = "find_related_by_network_analysis" =>
        /\ ~ SelectorGiven => (result.type = "error" /\ tool_calls = <<>>)
        /\ AlgorithmCallsMade # <<>> =>
              /\ EnsureReturnedSuccess
              /\ tool_calls = EnsureCallsMade \o AlgorithmCallsMade
        /\ (SelectorGiven /\ ~ EnsureReturnedSuccess) =>
              (result.type = "error" /\ AlgorithmCallsMade = <<>>)
        /\ (SelectorGiven /\ EnsureReturnedSuccess) => result.type = "network_analysis"

\* a request for two supported kinds whose projection could not be created:
\* the existence query and the failed create are the only backend calls
C22_Witness ==
    /\ op = "find_related_by_network_analysis"
    /\ SelectorGiven
    /\ Len(validate_analysis_types(request.analysis_types)) = 2
    /\ Len(tool_calls) = 2
    /\ tool_calls[2] = Call("create_projection", "error")
    /\ result.type = "error"


----------------------------------------------------------------------------
(* ensure_graph_projection: when the create call is issued.                *)

\* C23 as stated: ensure_graph_projection issues the projection-create call
\* only after an existence query that answered (and reported the projection
\* absent), never after an existence query that itself failed.
C23_CreateOnlyWhenAbsent ==
    \A i \in 1..Len(tool_calls) :
        tool_calls[i].query = "create_projection" =>
            /\ i > 1
            /\ tool_calls[i - 1] = Call("graph_exists", "ok")


----------------------------------------------------------------------------
(* The cached flag _graph_created of the agent.                            *)

\* a step that changes the flag is a successful ensure setting it or a
\* successful drop clearing it
FlagWrittenOnSuccess ==
    graph_created' # graph_created =>
        \/ /\ op' = "ensure_graph_projection"
           /\ result' = Ok(TRUE)
           /\ graph_created'
        \/ /\ op' = "drop_graph_projection"
           /\ result' = Ok(TRUE)
           /\ ~ graph_created'

\* a successful ensure leaves the flag set, a successful drop leaves it clear
SuccessWritesFlag ==
    /\ (op' = "ensure_graph_projection" /\ result' = Ok(TRUE)) => graph_created'
    /\ (op' = "drop_graph_projection" /\ result' = Ok(TRUE)) => ~ graph_created'

\* a failed drop or ensure leaves the flag as it was, and a failed drop
\* leaves the rest of the agent's state as it was, its one backend call apart
FailureLeavesState ==
    /\ (op' = "drop_graph_projection" /\ result' = Ok(FALSE)) =>
          /\ graph_created' = graph_created
          /\ projection' = projection
          /\ request' = request
          /\ Len(tool_calls') = Len(tool_calls) + 1
          /\ SubSeq(tool_calls', 1, Len(tool_calls)) = tool_calls
          /\ tool_calls'[Len(tool_calls')].query = "drop_graph"
    /\ (op' = "ensure_graph_projection" /\ result' = Ok(FALSE)) =>
          graph_created' = graph_created

\* an ensure begins with the existence query, whatever the flag says
EnsureAsksTheStore ==
    op' = "ensure_graph_projection" =>
        /\ Len(tool_calls') > Len(tool_calls)
        /\ tool_calls'[Len(tool_calls) + 1].query = "graph_exists"

\* C24: _graph_created is written only by a successful ensure_graph_projection
\* (set) and a successful drop_graph_projection (cleared); a failed drop
\* returns failure and leaves the flag and the rest of the agent's state
\* unchanged; a failed ensure leaves the flag unchanged; every ensure call
\* runs the existence query again instead of trusting the flag.
C24_FlagIsACache ==
    [][/\ FlagWrittenOnSuccess
       /\ SuccessWritesFlag
       /\ FailureLeavesState
       /\ EnsureAsksTheStore]_vars

\* with the flag set, a drop failed and left it set, and the ensure after it
\* asked the store again
C24_Witness ==
    /\ op = "ensure_graph_projection"
    /\ graph_created
    /\ Len(tool_calls) >= 3
    /\ tool_calls[Len(tool_calls) - 1].query = "drop_graph"
    /\ tool_calls[Len(tool_calls) - 1].outcome # "ok"
    /\ tool_calls[Len(tool_calls)] = Call("graph_exists", "ok")


----------------------------------------------------------------------------
(* Two concurrent calls of ensure_graph_projection on one projection name. *)
(* A call is two steps, one for each of its backend calls; the steps of    *)
(* the two calls interleave in every order.                                *)

Callers == {"first", "second"}

Caller(pc, returned, fault) == [pc |-> pc, returned |-> returned, fault |-> fault]

InitRace ==
    /\ callers = [c \in Callers |-> Caller("start", "none", FALSE)]
    /\ projection \in BOOLEAN
    /\ graph_created = FALSE
    /\ tool_calls = <<>>
    /\ request = NoRequest
    /\ RankingIdle
    /\ SessionIdle
    /\ ChainIdle
    /\ candidate = <<>>
    /\ op = "none"
    /\ result = NoResult
    /\ prev = <<>>
    /\ executed = <<>>
    /\ drivers = [opened |-> 0, closed |-> 0]
    /\ record = NoRecord
    /\ confidence = NoScore

\* the first half of ensure_graph_projection: the existence query and the
\* return when it finds the projection or raises.  fault records that the
\* backend failed the query.
EnsureQueriesStore(c) ==
    /\ callers[c].pc = "start"
    /\ \E exists_outcome \in ToolOutcomes :
         /\ tool_calls' = Append(tool_calls, Call("graph_exists", exists_outcome))
         /\ IF exists_outcome = "raises"
            THEN /\ callers' = [callers EXCEPT ![c] = Caller("done", "false", TRUE)]
                 /\ UNCHANGED graph_created
            ELSE IF exists_outcome = "ok" /\ projection
                 THEN /\ callers' = [callers EXCEPT ![c] = Caller("done", "true", FALSE)]
                      /\ graph_created' = TRUE
                 ELSE /\ callers' = [callers EXCEPT
                                       ![c] = Caller("create", "none", exists_outcome # "ok")]
                      /\ UNCHANGED graph_created
    /\ op' = "ensure_graph_projection"
    /\ UNCHANGED <<candidate, result, prev, database, scoring, ranking, projection,
                   request, interactive, checks_run>>

\* the second half: the create call and the return.  The backend fails a
\* create for a name that is projected; fault records any other failure.
EnsureCreates(c) ==
    /\ callers[c].pc = "create"
    /\ \E create_outcome \in CreateOutcomes(projection) :
         /\ tool_calls' = Append(tool_calls, Call("create_projection", create_outcome))
         /\ IF create_outcome = "ok"
            THEN /\ callers' = [callers EXCEPT ![c] = Caller("done", "true", callers[c].fault)]
                 /\ projection' = TRUE
                 /\ graph_created' = TRUE
            ELSE /\ callers' = [callers EXCEPT
                                  ![c] = Caller("done", "false",
                                                callers[c].fault \/ ~ projection)]
                 /\ UNCHANGED <<projection, graph_created>>
    /\ op' = "ensure_graph_projection"
    /\ UNCHANGED <<candidate, result, prev, database, scoring, ranking,
                   request, interactive, checks_run>>

NextRace == \E c \in Callers : EnsureQueriesStore(c) \/ EnsureCreates(c)

SpecRace == InitRace /\ [][NextRace]_vars

IsCreateCall(c) == c.query = "create_projection"

\* C25 as stated: when two concurrent ensure_graph_projection calls have
\* both returned, on a backend whose only failure is that of a create for a
\* name already projected, the projection exists, both calls reported
\* success, and at most one create call was made beyond the one a
\* sequential execution makes.
C25_RaceIsBenign ==
    (/\ \A c \in Callers : callers[c].pc = "done"
     /\ \A c \in Callers : ~ callers[c].fault)
        => /\ projection
           /\ \A c \in Callers : callers[c].returned = "true"
           /\ Len(SelectSeq(tool_calls, IsCreateCall)) <= 2


----------------------------------------------------------------------------
(* _process_network_results on a malformed record.                         *)

\* the metric a single-metric kind is scored by is not of a non-numeric
\* type; the composite score of the comprehensive kind leaves out a metric
\* that is None
WellFormed(rec, kind) ==
    kind # "comprehensive" => rec[MetricKey(kind)].kind # "null"

\* C26 as stated: when a backend record of a kind is malformed (its metric
\* is of a non-numeric type), result processing does not fail: it returns a
\* ranked list that holds every well-formed record of the kind.
C26_MalformedRecordSkipped ==
    (/\ op = "process_network_results"
     /\ ~ backend_result.error
     /\ backend_result.records # <<>>)
        => /\ result.status = "ok"
           /\ result.type = "records"
           /\ \A i \in 1..Len(backend_result.records) :
                 WellFormed(backend_result.records[i], analysis_type) =>
                     \E j \in 1..Len(result.value) :
                         WithoutScore(result.value[j]) =
                             WithoutScore(backend_result.records[i])


----------------------------------------------------------------------------
(* base_agent.py neo4j_query_tool: a rejected query never reaches the      *)
(* database.                                                               *)

\* the tool's validation rejects the candidate
ToolRejects == ToolValidation(candidate).status = "error"

\* the error result of a rejection, no connection and no executor call
RejectionStaysLocal ==
    ToolRejects =>
        /\ result = Raise("cypher_validation_error", candidate)
        /\ executed = <<>>
        /\ drivers = [opened |-> 0, closed |-> 0]

----------------------------------------------------------------------------
(* network_agent.py: _run_analysis_type, the query it selects and the      *)
(* parameters it binds.                                                    *)

\* the $parameters each template of GDS_QUERY_TEMPLATES refers to
TemplateParameters ==
    [ comprehensive_network_analysis |-> {"graph_name", "limit", "title_keyword", "work_id"},
      find_related_by_centrality |-> {"graph_name", "limit", "title_keyword", "work_id"},
      pagerank |-> {"graph_name", "limit"},
      shortest_path |-> {"graph_name", "limit", "source_keyword"},
      node_similarity |-> {"graph_name", "limit", "min_similarity"} ]

\* a selector argument: None, the empty string, or a text
SelectorValues == {"None", "", "graphs", "W42"}

\* Python's truth value of a selector argument
Truthy(v) == v \notin {"None", ""}

\* the names put into params
ParameterNames(kind, title_keyword, work_id) ==
    {"graph_name", "limit"}
    \cup (IF Truthy(title_keyword) THEN {"title_keyword", "source_keyword"} ELSE {})
    \cup (IF Truthy(work_id) THEN {"work_id"} ELSE {})
    \cup (IF kind = "similarity" THEN {"min_similarity"} ELSE {})

\* _run_analysis_type up to its tool call: the query selected and params,
\* or the ValueError for a kind without a template
run_analysis_type(kind, title_keyword, work_id, limit) ==
    IF kind \notin DOMAIN query_map
    THEN Raise("ValueError", <<>>)
    ELSE Returned("tool_call",
             [ query |-> query_map[kind],
               params |-> [ n \in ParameterNames(kind, title_keyword, work_id) |->
                              CASE n = "graph_name" -> "research_network"
                                [] n = "limit" -> limit
                                [] n = "title_keyword" -> title_keyword
                                [] n = "source_keyword" -> title_keyword
                                [] n = "work_id" -> work_id
                                [] n = "min_similarity" -> "0.1" ] ])

MaxLimit == 3

InitParams ==
    /\ request \in [ title_keyword : SelectorValues,
                     work_id : SelectorValues,
                     analysis_type : Range(supported_types) \cup {"sentiment"},
                     limit : 1..MaxLimit ]
    /\ projection = FALSE
    /\ graph_created = FALSE
    /\ tool_calls = <<>>
    /\ RankingIdle
    /\ SessionIdle
    /\ ChainIdle
    /\ NoCallers
    /\ candidate = <<>>
    /\ op = "none"
    /\ result = NoResult
    /\ prev = <<>>
    /\ executed = <<>>
    /\ drivers = [opened |-> 0, closed |-> 0]
    /\ record = NoRecord
    /\ confidence = NoScore

RunAnalysisType ==
    /\ op = "none"
    /\ op' = "run_analysis_type"
    /\ result' = run_analysis_type(request.analysis_type, request.title_keyword,
                                   request.work_id, request.limit)
    /\ UNCHANGED <<candidate, prev, database, scoring, ranking, projection, graph_created,
                   tool_calls, request, interactive, checks_run, callers>>

NextParams == RunAnalysisType

SpecParams == InitParams /\ [][NextParams]_vars

\* C28 as stated: for every supported kind and every selector that
\* find_related_by_network_analysis accepts (title_keyword, work_id or
\* both), the parameter map passed with the algorithm query binds every
\* $parameter the query template refers to.
C28_AllParametersBound ==
    (/\ op = "run_analysis_type"
     /\ request.analysis_type \in Range(supported_types)
     /\ Truthy(request.title_keyword) \/ Truthy(request.work_id))
        => /\ result.type = "tool_call"
           /\ TemplateParameters[result.value.query] \subseteq DOMAIN result.value.params


----------------------------------------------------------------------------
(* prepare_cypher on input that holds nothing but comments.                *)

\* C29 as stated: prepare_cypher never returns an empty or whitespace-only
\* string: for every input it raises a rejection or returns a query with at
\* least one non-whitespace character.
C29_PreparedNotBlank ==
    (op = "prepare_cypher" /\ result.status = "ok") => strip(result.value) # <<>>


----------------------------------------------------------------------------
(* run_interactive_mode on an input stream that ends.  The loop is a       *)
(* running program: a turn that can be taken is taken.                     *)

\* the lines typed before the input ends
ClosingVocab == { <<>>, <<"q">>, <<"w", "h", "o", "?">>, <<"h", "o", "w", "?">> }

InitClosing ==
    /\ input_lines \in ListsOver(ClosingVocab, MaxLines)
    /\ lines_read = 0
    /\ agent_calls = <<>>
    /\ session = "running"
    /\ ChainIdle
    /\ NoCallers
    /\ RankingIdle
    /\ AgentIdle
    /\ candidate = <<>>
    /\ op = "none"
    /\ result = NoResult
    /\ prev = <<>>
    /\ executed = <<>>
    /\ drivers = [opened |-> 0, closed |-> 0]
    /\ record = NoRecord
    /\ confidence = NoScore

SpecInteractiveFair ==
    InitClosing /\ [][NextInteractive]_vars /\ WF_vars(NextInteractive)

\* C30 as stated: run_interactive_mode terminates on every input stream:
\* also when the input ends without an exit command, the loop eventually
\* returns.
C30_SessionReturns == <>(session = "returned")

====
